---- MODULE Spec2Model ----
(***************************************************************************)
(* A model of the upload service: the durable UploadTracker, the S3        *)
(* transfer engine (S3Uploader), the FolderMonitor and the                 *)
(* UploadCoordinator that wires them together.                             *)
(*                                                                         *)
(* The module holds several specifications over one set of variables:      *)
(*   SpecTracker   the Tracker's public operations, the filesystem they    *)
(*                 read and the state file they rewrite;                   *)
(*   SpecUploader  one call of S3Uploader._upload_file / upload_files      *)
(*                 against a scripted remote store;                        *)
(*   SpecCoord     the Coordinator driving Tracker, Monitor and engine.    *)
(***************************************************************************)
EXTENDS Integers, Sequences, FiniteSets, TLC

VARIABLES
    fs,         \* the local filesystem: path -> [exists, mtime, size]
    tracker,    \* UploadTracker: [alive, states, degraded] (states: the ordered dict
                \* _upload_states; degraded: _load_state logged an unreadable file)
    stateFile,  \* the persisted state file: [kind, upload_states]
    last,       \* the last Tracker call: its arguments, whether it raised, what it returned
    nCalls,     \* Tracker calls made so far
    nFsOps,     \* filesystem changes made so far
    up,         \* the transfer engine's last call: its inputs and its outcome
    coord,      \* UploadCoordinator: [alive, active, last, firstOk] (active: the keys of
                \* _active_uploads; last: its last operation; firstOk: when each file
                \* was first transferred successfully since the upload was registered)
    monitor,    \* FolderMonitor._monitors: upload id -> MonitoredFolder
    now,        \* the clock: time.time() and the mtime a write stamps
    threads,    \* FolderMonitor's lock, stop events and poll threads, and the
                \* callback invocations they made
    locks       \* the three threading.Lock objects: where each thread of the service
                \* is in its call and which locks it holds

vars == <<fs, tracker, stateFile, last, nCalls, nFsOps, up, coord, monitor, now, threads, locks>>

(***************************************************************************)
(* Bounds of the model.                                                    *)
(***************************************************************************)
MaxMtime == 2
MaxCalls == 4
MaxFsOps == 1

(***************************************************************************)
(* Paths, folders and glob patterns.                                       *)
(***************************************************************************)
Paths == {"d1/a.txt", "d1/b.log"}

\* the files the Monitor's targets watch: those of d1, and one of a second folder
MonitorPaths == Paths \cup {"d2/c.txt"}

FolderOf(p) == IF p = "d2/c.txt" THEN "d2" ELSE "d1"

\* Path.name
NameOf(p) == IF p = "d1/b.log" THEN "b.log" ELSE "a.txt"

SuffixOf(p) == IF p = "d1/b.log" THEN "log" ELSE "txt"

\* pathlib's glob match of a file name against the patterns in use
Matches(p, pattern) == pattern = "*" \/ (pattern = "*.txt" /\ SuffixOf(p) = "txt")

NoFile == [exists |-> FALSE, mtime |-> 0]

FileAt(m) == [exists |-> TRUE, mtime |-> m]

\* set(p for p in source_folder.glob(pattern) if p.is_file())
\* a listing that matches the pattern in every folder
Glob_every_folder(disk, folder, pattern) ==
    {p \in DOMAIN disk : disk[p].exists /\ Matches(p, pattern)}

Glob(disk, folder, pattern) ==
    {p \in DOMAIN disk : disk[p].exists /\ FolderOf(p) = folder /\ Matches(p, pattern)}

UploadIds == {"U1", "U2"}

Requests ==
    { [upload_id |-> "U1", source_folder |-> "d1", destination_bucket |-> "bkt", pattern |-> "*.txt"],
      [upload_id |-> "U2", source_folder |-> "d1", destination_bucket |-> "bkt", pattern |-> "*"] }

\* the targets register_folder is called with: two folders, two patterns
Targets ==
    { [upload_id |-> "U1", source_folder |-> "d1", destination_path |-> "bkt", pattern |-> "*"],
      [upload_id |-> "U1", source_folder |-> "d1", destination_path |-> "bkt", pattern |-> "*.txt"],
      [upload_id |-> "U2", source_folder |-> "d2", destination_path |-> "bkt2", pattern |-> "*.txt"] }

\* the in-progress descriptors registerChunkedSession is called with
Descriptors ==
    { [upload_id |-> "mpu-1", part_number |-> 1, offset |-> 0],
      [upload_id |-> "mpu-1", part_number |-> 2, offset |-> 8388608] }

(***************************************************************************)
(* Python dicts: a dict is a function on its key set; _upload_states is    *)
(* kept as the sequence of its values in insertion order, which is the     *)
(* order _save_state writes them in.                                        *)
(***************************************************************************)
EmptyDict == [x \in {} |-> 0]

DictDel(d, k) == [x \in (DOMAIN d) \ {k} |-> d[x]]

DictPut(d, k, v) == [x \in (DOMAIN d) \cup {k} |-> IF x = k THEN v ELSE d[x]]

\* dict.get(key, default)
DictGetOr(d, k, default) == IF k \in DOMAIN d THEN d[k] ELSE default

SeqToSet(s) == {s[i] : i \in 1..Len(s)}

HasState(states, id) == \E i \in 1..Len(states) : states[i].upload_id = id

\* self._upload_states.get(upload_id), for an id that has a state
StateOf(states, id) == states[CHOOSE i \in 1..Len(states) : states[i].upload_id = id]

\* self._upload_states[state.upload_id] = state
SetState(states, st) ==
    IF HasState(states, st.upload_id)
    THEN [i \in 1..Len(states) |-> IF states[i].upload_id = st.upload_id THEN st ELSE states[i]]
    ELSE Append(states, st)

(***************************************************************************)
(* UploadTracker: persistence.                                             *)
(***************************************************************************)
\* _save_state: the whole list of states, rewritten in full
SaveState(states) == [kind |-> "json", upload_states |-> states]

RECURSIVE LoadList(_, _)
\* the loop of _load_state: one UploadState per record, keyed by its upload_id
LoadList(records, acc) ==
    IF records = <<>> THEN acc
    ELSE LoadList(Tail(records), SetState(acc, Head(records)))

\* a loader that keeps the records it could read out of a damaged file
LoadState_keeps_prefix(file) ==
    IF file.kind \in {"json", "truncated"} THEN LoadList(file.upload_states, <<>>) ELSE <<>>

\* _load_state: no file, or a file json.load cannot parse, leaves the map empty
LoadState(file) ==
    IF file.kind = "json" THEN LoadList(file.upload_states, <<>>) ELSE <<>>

(***************************************************************************)
(* UploadTracker: operations, as functions of the state map and the disk.  *)
(* Each yields the new map, whether _save_state ran and whether the call   *)
(* raised.                                                                 *)
(***************************************************************************)
NewState(request) ==
    [upload_id |-> request.upload_id,
     source_folder |-> request.source_folder,
     destination_bucket |-> request.destination_bucket,
     pattern |-> request.pattern,
     completed_files |-> <<>>,
     in_progress_files |-> EmptyDict,
     last_modified_times |-> EmptyDict]

\* a register_upload that keeps the completed files of an upload id it knows
register_upload_keeps_completed(states, request) ==
    [states |-> SetState(states,
                    IF HasState(states, request.upload_id)
                    THEN [NewState(request) EXCEPT
                            !.completed_files = StateOf(states, request.upload_id).completed_files]
                    ELSE NewState(request)),
     saved |-> TRUE, raised |-> FALSE]

register_upload(states, request) ==
    [states |-> SetState(states, NewState(request)), saved |-> TRUE, raised |-> FALSE]

\* mark_file_complete without the "not in state.completed_files" test
mark_file_complete_no_membership_test(states, disk, id, path, success) ==
    IF ~HasState(states, id)
    THEN [states |-> states, saved |-> FALSE, raised |-> FALSE]
    ELSE
      LET st == StateOf(states, id)
          s1 == [st EXCEPT !.in_progress_files = DictDel(@, path)]
          s2 == [s1 EXCEPT !.completed_files = Append(@, path)]
          s3 == [s2 EXCEPT !.last_modified_times = DictPut(@, path, disk[path].mtime)]
      IN  IF ~success
          THEN [states |-> SetState(states, s1), saved |-> TRUE, raised |-> FALSE]
          ELSE IF disk[path].exists
          THEN [states |-> SetState(states, s3), saved |-> TRUE, raised |-> FALSE]
          ELSE [states |-> SetState(states, s2), saved |-> FALSE, raised |-> TRUE]

\* mark_file_complete that appends the path and records no modification time
mark_file_complete_no_mtime(states, disk, id, path, success) ==
    IF ~HasState(states, id)
    THEN [states |-> states, saved |-> FALSE, raised |-> FALSE]
    ELSE
      LET st == StateOf(states, id)
          s1 == [st EXCEPT !.in_progress_files = DictDel(@, path)]
          adds == success /\ path \notin SeqToSet(s1.completed_files)
          s2 == [s1 EXCEPT !.completed_files = Append(@, path)]
      IN  IF ~adds
          THEN [states |-> SetState(states, s1), saved |-> TRUE, raised |-> FALSE]
          ELSE [states |-> SetState(states, s2), saved |-> TRUE, raised |-> FALSE]

mark_file_complete(states, disk, id, path, success) ==
    IF ~HasState(states, id)
    THEN [states |-> states, saved |-> FALSE, raised |-> FALSE]
    ELSE
      LET st == StateOf(states, id)
          s1 == [st EXCEPT !.in_progress_files = DictDel(@, path)]
          adds == success /\ path \notin SeqToSet(s1.completed_files)
          s2 == [s1 EXCEPT !.completed_files = Append(@, path)]
          s3 == [s2 EXCEPT !.last_modified_times = DictPut(@, path, disk[path].mtime)]
      IN  IF ~adds
          THEN [states |-> SetState(states, s1), saved |-> TRUE, raised |-> FALSE]
          ELSE IF disk[path].exists
          THEN [states |-> SetState(states, s3), saved |-> TRUE, raised |-> FALSE]
          \* Path(file_path).stat() raises after the append, before _save_state
          ELSE [states |-> SetState(states, s2), saved |-> FALSE, raised |-> TRUE]

register_multipart_upload(states, id, path, desc) ==
    IF ~HasState(states, id)
    THEN [states |-> states, saved |-> FALSE, raised |-> FALSE]
    ELSE
      LET st == StateOf(states, id)
      IN  [states |-> SetState(states, [st EXCEPT !.in_progress_files = DictPut(@, path, desc)]),
           saved |-> TRUE, raised |-> FALSE]

\* get_incomplete_files comparing the times with > (as the Monitor does) for !=
get_incomplete_files_newer_only(states, disk, id) ==
    IF ~HasState(states, id) THEN {}
    ELSE
      LET st == StateOf(states, id)
          current_files == Glob(disk, st.source_folder, st.pattern)
      IN  {p \in current_files :
              \/ p \notin SeqToSet(st.completed_files)
              \/ disk[p].mtime > DictGetOr(st.last_modified_times, p, 0)}
          \cup DOMAIN st.in_progress_files

get_incomplete_files(states, disk, id) ==
    IF ~HasState(states, id) THEN {}
    ELSE
      LET st == StateOf(states, id)
          current_files == Glob(disk, st.source_folder, st.pattern)
      IN  {p \in current_files :
              \/ p \notin SeqToSet(st.completed_files)
              \/ disk[p].mtime # DictGetOr(st.last_modified_times, p, 0)}
          \cup DOMAIN st.in_progress_files

(***************************************************************************)
(* S3Uploader.  A call is determined by the file (its size, and how many   *)
(* of the call's filesystem accesses still find it) and by what the remote *)
(* store answers; the call yields its UploadResult, or raises, and the log *)
(* of the remote calls it made, in order.                                  *)
(***************************************************************************)
\* S3Uploader.__init__: chunk_size
chunk_size == 8 * 1024 * 1024

\* stop_after_attempt(3)
MaxAttempts == 3

\* file sizes around the chunk threshold
Sizes == {0, chunk_size - 1, chunk_size, chunk_size + 1, 2 * chunk_size, 2 * chunk_size + 1}

\* the parts a file is read in: f.read(chunk_size) until offset reaches the size
NumParts(size) == (size + chunk_size - 1) \div chunk_size

PartNumbers == 1..NumParts(2 * chunk_size + 1)

\* error codes of the remote store: a transient one and a permanent one
ErrorCodes == {"RequestTimeout", "AccessDenied"}

\* is_retryable_error
is_retryable_error(code) ==
    code \in {"RequestTimeout", "RequestTimeoutException", "PriorRequestNotComplete",
              "ConnectionError", "ThrottlingException", "ThrottledException",
              "ServiceUnavailable", "Throttling", "5XX"}

\* The file is found by the first `lives` filesystem accesses of the call, in the
\* order the code makes them: stat in _upload_file, stat in _multipart_upload,
\* open in _multipart_upload.  3: the file stays.
Lives == {0, 1, 2, 3}

\* What the remote store answers: the first putFails put calls fail, with error code
\* `code`; create, complete and abort succeed or fail; the first partFails[n]
\* upload_part calls of part n fail.
Remotes ==
    [putFails : 0..MaxAttempts, code : ErrorCodes, createOk : BOOLEAN,
     partFails : [PartNumbers -> 0..MaxAttempts], completeOk : BOOLEAN, abortOk : BOOLEAN]

\* the session id create_multipart_upload returns for a key
SessionOf(key) == <<"mpu", key>>

NoSession == <<>>

\* a call of the s3 client as the store sees it; an upload_part carries the length
\* of its Body and the ETag it answered, a complete_multipart_upload its Parts
RemoteCall(call, session, part, ok) ==
    [call |-> call, session |-> session, part |-> part, ok |-> ok,
     size |-> 0, etag |-> <<>>, parts |-> <<>>]

UploadResult(file_path, s3_key, success, error, size_bytes, etag) ==
    [file_path |-> file_path, s3_key |-> s3_key, success |-> success, error |-> error,
     size_bytes |-> size_bytes, etag |-> etag]

Returned(result, log) == [raised |-> FALSE, result |-> result, log |-> log]

Raised(exc, log) == [raised |-> TRUE, exc |-> exc, log |-> log]

RECURSIVE Attempt(_, _, _, _)
\* the k-th call of the wrapped function ended with outcome out, after the calls
\* before it left the log: an outcome that does not raise is returned, an
\* exception is followed by the next call, or by RetryError after the last one
Attempt(att, k, out, log) ==
    IF ~out.raised THEN [out EXCEPT !.log = log \o out.log]
    ELSE IF k = MaxAttempts THEN Raised("RetryError", log \o out.log)
    ELSE Attempt(att, k + 1, att[k + 1], log \o out.log)

\* tenacity's @retry(retry_if_exception_type(Exception), stop_after_attempt(3)):
\* att[k] is the outcome of the k-th call of the wrapped function; the wrapper
\* returns the first outcome that does not raise, and raises RetryError after
\* the last attempt
Retrying(att) == Attempt(att, 1, att[1], <<>>)

\* _upload_part under @retry: the upload_part calls of part n
upload_part(remote, session, n, data) ==
    Retrying([k \in 1..MaxAttempts |->
        IF k > remote.partFails[n]
        THEN Returned([ETag |-> <<"etag", n>>],
                      <<[RemoteCall("upload_part", session, n, TRUE)
                           EXCEPT !.size = data, !.etag = <<"etag", n>>]>>)
        ELSE Raised(remote.code,
                    <<[RemoteCall("upload_part", session, n, FALSE) EXCEPT !.size = data]>>)])

RECURSIVE UploadParts(_, _, _, _, _, _, _)
\* a loop that puts each new part at the head of the list
PartSent_newest_first(remote, session, size, offset, part_number, parts, log, part) ==
    IF part.raised
    THEN [raised |-> TRUE, exc |-> part.exc, parts |-> parts, log |-> log \o part.log]
    ELSE UploadParts(remote, session, size,
                     offset + (IF size - offset < chunk_size THEN size - offset ELSE chunk_size),
                     part_number + 1,
                     <<[PartNumber |-> part_number, ETag |-> part.result.ETag]>> \o parts,
                     log \o part.log)

\* one iteration of the while loop of _multipart_upload once the part was sent with
\* outcome part: its exception leaves the loop, its ETag is appended to parts
PartSent(remote, session, size, offset, part_number, parts, log, part) ==
    IF part.raised
    THEN [raised |-> TRUE, exc |-> part.exc, parts |-> parts, log |-> log \o part.log]
    ELSE UploadParts(remote, session, size,
                     offset + (IF size - offset < chunk_size THEN size - offset ELSE chunk_size),
                     part_number + 1,
                     Append(parts, [PartNumber |-> part_number, ETag |-> part.result.ETag]),
                     log \o part.log)

\* the while loop of _multipart_upload: offset, part_number, parts and the log so
\* far; ends with every part sent, or with the exception of a part
UploadParts(remote, session, size, offset, part_number, parts, log) ==
    IF offset >= size THEN [raised |-> FALSE, parts |-> parts, log |-> log]
    ELSE PartSent(remote, session, size, offset, part_number, parts, log,
                  upload_part(remote, session, part_number,
                              IF size - offset < chunk_size THEN size - offset
                              ELSE chunk_size))

\* an except branch that returns the failed result and leaves the session open
AbortAndFail_no_abort(remote, file_path, s3_key, size, session, exc, log) ==
    Returned(UploadResult(file_path, s3_key, FALSE, exc, size, "None"), log)

\* the except branch of _multipart_upload: abort the session if there is one,
\* swallow what abort raises, return the failed result
AbortAndFail(remote, file_path, s3_key, size, session, exc, log) ==
    Returned(UploadResult(file_path, s3_key, FALSE, exc, size, "None"),
             IF session = NoSession THEN log
             ELSE Append(log, RemoteCall("abort_multipart_upload", session, 0, remote.abortOk)))

\* _multipart_upload after the while loop ended with outcome sent: the session is
\* finalized, or aborted
PartsSent(remote, file_path, s3_key, size, session, sent) ==
    IF sent.raised
    THEN AbortAndFail(remote, file_path, s3_key, size, session, sent.exc, sent.log)
    ELSE IF ~remote.completeOk
    THEN AbortAndFail(remote, file_path, s3_key, size, session, remote.code,
                      Append(sent.log,
                             [RemoteCall("complete_multipart_upload", session, 0, FALSE)
                                EXCEPT !.parts = sent.parts]))
    ELSE Returned(UploadResult(file_path, s3_key, TRUE, "None", size,
                               IF sent.parts = <<>> THEN "None"
                               ELSE sent.parts[Len(sent.parts)].ETag),
                  Append(sent.log,
                         [RemoteCall("complete_multipart_upload", session, 0, TRUE)
                            EXCEPT !.parts = sent.parts]))

\* one call of the body of _multipart_upload
multipart_body(remote, file_path, s3_key, size, lives) ==
    LET session == SessionOf(s3_key)
        created == <<RemoteCall("create_multipart_upload", session, 0, remote.createOk)>>
    IN  IF lives < 2 THEN Raised("FileNotFoundError", <<>>)        \* file_path.stat()
        ELSE IF ~remote.createOk
        THEN AbortAndFail(remote, file_path, s3_key, size, NoSession, remote.code, created)
        ELSE IF lives < 3                                          \* open(file_path, 'rb')
        THEN AbortAndFail(remote, file_path, s3_key, size, session, "FileNotFoundError", created)
        ELSE PartsSent(remote, file_path, s3_key, size, session,
                       UploadParts(remote, session, size, 0, 1, <<>>, created))

\* _multipart_upload under @retry
multipart_upload(remote, file_path, s3_key, size, lives) ==
    Retrying([k \in 1..MaxAttempts |-> multipart_body(remote, file_path, s3_key, size, lives)])

\* the "except Exception" branch of _upload_file around a call with outcome out:
\* an exception becomes a failed result
Caught(out, file_path, s3_key, size) ==
    IF out.raised
    THEN Returned(UploadResult(file_path, s3_key, FALSE, out.exc, size, "None"), out.log)
    ELSE out

\* a body of _upload_file that sends a file of exactly chunk_size in chunks
upload_file_body_chunks_at_threshold(k, remote, file_path, s3_key, size, lives) ==
    IF lives < 1 THEN Raised("UnboundLocalError", <<>>)
    ELSE IF size >= chunk_size
    THEN Caught(multipart_upload(remote, file_path, s3_key, size, lives),
                file_path, s3_key, size)
    ELSE IF k > remote.putFails
    THEN Returned(UploadResult(file_path, s3_key, TRUE, "None", size, "None"),
                  <<RemoteCall("upload_file", NoSession, 0, TRUE)>>)
    ELSE Returned(UploadResult(file_path, s3_key, FALSE, remote.code, size, "None"),
                  <<RemoteCall("upload_file", NoSession, 0, FALSE)>>)

\* the k-th call of the body of _upload_file
upload_file_body(k, remote, file_path, s3_key, size, lives) ==
    \* stat() raises; the except branch reads size_bytes, which is unbound, and raises
    IF lives < 1 THEN Raised("UnboundLocalError", <<>>)
    ELSE IF size > chunk_size
    THEN Caught(multipart_upload(remote, file_path, s3_key, size, lives),
                file_path, s3_key, size)
    ELSE IF k > remote.putFails
    THEN Returned(UploadResult(file_path, s3_key, TRUE, "None", size, "None"),
                  <<RemoteCall("upload_file", NoSession, 0, TRUE)>>)
    \* the except branch returns the failure: the wrapper sees no exception
    ELSE Returned(UploadResult(file_path, s3_key, FALSE, remote.code, size, "None"),
                  <<RemoteCall("upload_file", NoSession, 0, FALSE)>>)

\* _upload_file under @retry
upload_file(remote, file_path, s3_key, size, lives) ==
    Retrying([k \in 1..MaxAttempts |-> upload_file_body(k, remote, file_path, s3_key, size, lives)])

(***************************************************************************)
(* S3Uploader.upload_files: every file is submitted to the pool; the       *)
(* results are collected in the order the futures complete.                *)
(***************************************************************************)
\* files a batch can hold: those of the glob, and one of a subfolder
BatchPaths == Paths \cup {"d1/sub/a.txt"}

\* the outcome of each file's _upload_file task
TaskOutcome(f) == upload_file(f.remote, f.path, NameOf(f.path), f.size, f.lives)

\* str(hash(tuple(files))): a string made from the paths of the batch
summary_id(files) == ToString(<<"hash", [j \in 1..Len(files) |-> files[j].path]>>)

RECURSIVE Collect(_, _, _, _, _, _)
\* one iteration of the "for future in as_completed(...)" loop for the file f whose
\* task ended with outcome out: a task that raised is turned into a failed result,
\* whose size_bytes is read by file_path.stat(), which raises when the file is
\* still missing
Completed_future(files, order, i, results, successful, failed, f, out) ==
    IF ~out.raised
    THEN Collect(files, order, i + 1, Append(results, out.result),
                 IF out.result.success THEN successful + 1 ELSE successful,
                 IF out.result.success THEN failed ELSE failed + 1)
    ELSE IF f.back
    THEN Collect(files, order, i + 1,
                 Append(results, UploadResult(f.path, NameOf(f.path), FALSE, out.exc,
                                              f.size, "None")),
                 successful, failed + 1)
    ELSE [raised |-> TRUE, exc |-> "FileNotFoundError"]

\* the loop from position i of the completion order on: the summary, or the
\* exception that leaves the loop
Collect(files, order, i, results, successful, failed) ==
    IF i > Len(order)
    THEN [raised |-> FALSE,
          summary |-> [upload_id |-> summary_id(files),
                       total_files |-> Len(files),
                       successful_uploads |-> successful,
                       failed_uploads |-> failed,
                       results |-> results]]
    ELSE Completed_future(files, order, i, results, successful, failed,
                          files[order[i]], TaskOutcome(files[order[i]]))

\* upload_files: the summary, or the exception that leaves the loop
upload_files(files, order) == Collect(files, order, 1, <<>>, 0, 0)

(***************************************************************************)
(* The transfer engine's calls as actions.                                 *)
(***************************************************************************)
MaxBatch == 2

UpIdle == [phase |-> "idle"]

\* self._lock is held by nobody, by a poll thread, or by the caller of stop_all
Unlocked == <<>>

StopAllCaller == <<"stop_all", 0>>

\* FolderMonitor.__init__: the lock is free, no stop event, no thread, and no
\* callback invocation was made; `refused` tells whether register_folder has
\* turned down a call for a registered id, with the descriptor the target has
\* ("same") or with another one ("other")
NoThreads ==
    [lock |-> Unlocked, stop_events |-> EmptyDict, monitor_threads |-> EmptyDict,
     loops |-> EmptyDict, started |-> [id \in UploadIds |-> 0], stop_all |-> "none",
     callback |-> [flip |-> FALSE, upload_id |-> "", files |-> {}, raised |-> FALSE],
     delivered |-> [id \in UploadIds |-> [p \in MonitorPaths |-> 0]],
     written |-> [id \in UploadIds |-> [p \in MonitorPaths |-> "none"]],
     raised |-> [id \in UploadIds |-> FALSE],
     refused |-> "none"]

\* the locks of the service: FolderMonitor._lock, UploadCoordinator._lock and
\* UploadTracker._lock
LockNames == {"monitor", "coordinator", "tracker"}

\* the threads of the service: the poll thread of each of two targets, a client
\* thread that calls start_upload and one that calls stop_upload
Callers == {"poll_U1", "poll_U2", "start_upload", "stop_upload"}

\* every thread is between two calls and holds no lock
NoLocks ==
    [pc |-> [c \in Callers |-> "idle"], held |-> [c \in Callers |-> {}]]

NoOp == [op |-> "none", upload_id |-> "", raised |-> FALSE,
         sent |-> [id \in UploadIds |-> {}], accept |-> [p \in Paths |-> TRUE]]

CoordDown == [alive |-> FALSE, active |-> {}, last |-> NoOp,
              firstOk |-> [id \in UploadIds |-> [p \in Paths |-> 0]]]

AllOk ==
    [putFails |-> 0, code |-> "RequestTimeout", createOk |-> TRUE,
     partFails |-> [n \in PartNumbers |-> 0], completeOk |-> TRUE, abortOk |-> TRUE]

\* the remote answers that matter to a file of the given size
RemotesFor(size) ==
    {r \in Remotes :
        IF size > chunk_size
        THEN r.putFails = 0 /\ \A n \in PartNumbers : n > NumParts(size) => r.partFails[n] = 0
        ELSE r.createOk /\ r.completeOk /\ r.abortOk /\ \A n \in PartNumbers : r.partFails[n] = 0}

\* a file of a batch: transferred or refused by the store, present or missing
\* (back: it exists again when upload_files reads its size)
BatchFiles ==
    {f \in [path : BatchPaths, size : {chunk_size, chunk_size + 1}, lives : {0, 3},
            remote : {AllOk, [AllOk EXCEPT !.putFails = 1, !.completeOk = FALSE]},
            back : BOOLEAN] :
        f.back => f.lives = 0}

Batches ==
    {b \in UNION {[1..n -> BatchFiles] : n \in 0..MaxBatch} :
        \A i, j \in 1..Len(b) : i # j => b[i].path # b[j].path}

CompletionOrders(n) == {o \in [1..n -> 1..n] : \A i, j \in 1..n : i # j => o[i] # o[j]}

UploadFileCall(p, size, lives, remote) ==
    /\ up.phase = "idle"
    /\ up' = [phase |-> "file", file_path |-> p, s3_key |-> NameOf(p), size |-> size,
              lives |-> lives, remote |-> remote,
              out |-> upload_file(remote, p, NameOf(p), size, lives)]
    /\ UNCHANGED <<fs, tracker, stateFile, last, nCalls, nFsOps, coord, monitor, now, threads, locks>>

UploadFilesCall(files, order) ==
    /\ up.phase = "idle"
    /\ up' = [phase |-> "batch", files |-> files, order |-> order,
              out |-> upload_files(files, order)]
    /\ UNCHANGED <<fs, tracker, stateFile, last, nCalls, nFsOps, coord, monitor, now, threads, locks>>

UploadReturn ==
    /\ up.phase # "idle"
    /\ up' = UpIdle
    /\ UNCHANGED <<fs, tracker, stateFile, last, nCalls, nFsOps, coord, monitor, now, threads, locks>>

(***************************************************************************)
(* The Tracker's calls as actions.                                         *)
(***************************************************************************)
NoCall == [op |-> "none", upload_id |-> "", path |-> "", success |-> FALSE,
           raised |-> FALSE, ret |-> {}, again |-> FALSE]

\* again: the call before this one was the same call with the same arguments
Call(op, id, path, success, raised, ret) ==
    [op |-> op, upload_id |-> id, path |-> path, success |-> success,
     raised |-> raised, ret |-> ret,
     again |-> (last.op = op /\ last.upload_id = id /\ last.path = path /\ last.success = success)]

\* a mutating call's effect on the map and on the state file
Apply(r) ==
    /\ tracker' = [tracker EXCEPT !.states = r.states]
    /\ stateFile' = IF r.saved THEN SaveState(r.states) ELSE stateFile

CanCall == tracker.alive /\ nCalls < MaxCalls

Register(request) ==
    /\ CanCall
    /\ Apply(register_upload(tracker.states, request))
    /\ last' = Call("register", request.upload_id, "", FALSE, FALSE, {})
    /\ nCalls' = nCalls + 1
    /\ UNCHANGED <<fs, nFsOps, up, coord, monitor, now, threads, locks>>

MarkComplete(id, path, success) ==
    /\ CanCall
    /\ LET r == mark_file_complete(tracker.states, fs, id, path, success)
       IN  /\ Apply(r)
           /\ last' = Call("markComplete", id, path, success, r.raised, {})
    /\ nCalls' = nCalls + 1
    /\ UNCHANGED <<fs, nFsOps, up, coord, monitor, now, threads, locks>>

RegisterChunkedSession(id, path, desc) ==
    /\ CanCall
    /\ Apply(register_multipart_upload(tracker.states, id, path, desc))
    /\ last' = Call("registerChunkedSession", id, path, FALSE, FALSE, {})
    /\ nCalls' = nCalls + 1
    /\ UNCHANGED <<fs, nFsOps, up, coord, monitor, now, threads, locks>>

GetIncompleteFiles(id) ==
    /\ CanCall
    /\ last' = Call("getIncompleteFiles", id, "", FALSE, FALSE,
                    get_incomplete_files(tracker.states, fs, id))
    /\ nCalls' = nCalls + 1
    /\ UNCHANGED <<fs, tracker, stateFile, nFsOps, up, coord, monitor, now, threads, locks>>

\* UploadTracker.__init__ against the state file
TrackerInit ==
    /\ ~tracker.alive
    /\ tracker' = [alive |-> TRUE, states |-> LoadState(stateFile),
                   degraded |-> (stateFile.kind = "truncated")]
    /\ last' = Call("init", "", "", FALSE, FALSE, {})
    /\ UNCHANGED <<fs, stateFile, nCalls, nFsOps, up, coord, monitor, now, threads, locks>>

\* the process ends; the Tracker object is gone, the file stays
ProcessExit ==
    /\ tracker.alive
    /\ tracker' = [alive |-> FALSE, states |-> <<>>, degraded |-> FALSE]
    /\ last' = NoCall
    /\ UNCHANGED <<fs, stateFile, nCalls, nFsOps, up, coord, monitor, now, threads, locks>>

\* the process dies inside _save_state's open(..., 'w') / json.dump: the file
\* holds a strict prefix of the document, here the first k records of it
CrashInSave(k) ==
    /\ tracker.alive
    /\ stateFile.kind = "json"
    /\ k \in 0..Len(tracker.states)
    /\ stateFile' = [kind |-> "truncated", upload_states |-> SubSeq(tracker.states, 1, k)]
    /\ tracker' = [alive |-> FALSE, states |-> <<>>, degraded |-> FALSE]
    /\ last' = NoCall
    /\ UNCHANGED <<fs, nCalls, nFsOps, up, coord, monitor, now, threads, locks>>

(***************************************************************************)
(* The environment: files are written, touched and deleted.                *)
(***************************************************************************)
WriteFile(p, m) ==
    /\ nFsOps < MaxFsOps
    /\ m \in 1..MaxMtime
    /\ fs[p] # FileAt(m)
    /\ fs' = [fs EXCEPT ![p] = FileAt(m)]
    /\ nFsOps' = nFsOps + 1
    /\ UNCHANGED <<tracker, stateFile, last, nCalls, up, coord, monitor, now, threads, locks>>

DeleteFile(p) ==
    /\ nFsOps < MaxFsOps
    /\ fs[p].exists
    /\ fs' = [fs EXCEPT ![p] = NoFile]
    /\ nFsOps' = nFsOps + 1
    /\ UNCHANGED <<tracker, stateFile, last, nCalls, up, coord, monitor, now, threads, locks>>

InitTracker ==
    /\ fs \in [Paths -> {NoFile} \cup {FileAt(m) : m \in 1..MaxMtime}]
    /\ tracker = [alive |-> TRUE, states |-> <<>>, degraded |-> FALSE]
    /\ stateFile = [kind |-> "missing", upload_states |-> <<>>]
    /\ last = [NoCall EXCEPT !.op = "init"]
    /\ nCalls = 0
    /\ nFsOps = 0
    /\ up = UpIdle
    /\ coord = CoordDown
    /\ monitor = EmptyDict
    /\ now = 1
    /\ threads = NoThreads
    /\ locks = NoLocks

NextTracker ==
    \/ \E request \in Requests : Register(request)
    \/ \E id \in UploadIds, p \in Paths, success \in BOOLEAN : MarkComplete(id, p, success)
    \/ \E id \in UploadIds, p \in Paths, desc \in Descriptors : RegisterChunkedSession(id, p, desc)
    \/ \E id \in UploadIds : GetIncompleteFiles(id)
    \/ TrackerInit
    \/ ProcessExit
    \/ \E k \in 0..Cardinality(UploadIds) : CrashInSave(k)
    \/ \E p \in Paths, m \in 1..MaxMtime : WriteFile(p, m)
    \/ \E p \in Paths : DeleteFile(p)

SpecTracker == InitTracker /\ [][NextTracker]_vars

InitUploader ==
    /\ fs = [p \in Paths |-> NoFile]
    /\ tracker = [alive |-> FALSE, states |-> <<>>, degraded |-> FALSE]
    /\ stateFile = [kind |-> "missing", upload_states |-> <<>>]
    /\ last = NoCall
    /\ nCalls = 0
    /\ nFsOps = 0
    /\ up = UpIdle
    /\ coord = CoordDown
    /\ monitor = EmptyDict
    /\ now = 1
    /\ threads = NoThreads
    /\ locks = NoLocks

\* _upload_file on any file, against any remote
UploadFileStep ==
    /\ up.phase = "idle"
    /\ \E p \in Paths, size \in Sizes, lives \in Lives :
          \E remote \in RemotesFor(size) : UploadFileCall(p, size, lives, remote)

\* upload_files on any batch, its tasks completing in any order
UploadFilesStep ==
    /\ up.phase = "idle"
    /\ \E files \in Batches :
          \E order \in CompletionOrders(Len(files)) : UploadFilesCall(files, order)

NextUploader ==
    \/ UploadFileStep
    \/ UploadFilesStep
    \/ UploadReturn

SpecUploader == InitUploader /\ [][NextUploader]_vars

(***************************************************************************)
(* FolderMonitor and UploadCoordinator.  Every timed event (a registration, *)
(* a poll, a write) happens at its own instant now + 1.                     *)
(***************************************************************************)
MaxClock == 5

\* the size of each file of the source folder: one at the threshold, one above it
SizeOf(p) == IF p = "d1/b.log" THEN chunk_size + 1 ELSE chunk_size

\* a store that refuses the file: the put fails, the finalize call fails
Refusing == [AllOk EXCEPT !.putFails = 1, !.completeOk = FALSE]

RECURSIVE SeqOf(_)
\* list(a set): its elements in some order
SeqOf(set) ==
    IF set = {} THEN <<>>
    ELSE LET x == CHOOSE y \in set : TRUE IN <<x>> \o SeqOf(set \ {x})

\* the order the tasks of a batch of n files complete in: as submitted, or reversed
CompletionOrder(n, rev) == [i \in 1..n |-> IF rev THEN n + 1 - i ELSE i]

\* a registration that replaces the target of a registered id
register_folder_overwrites(mon, disk, id, source_folder, destination_path, pattern, t) ==
    DictPut(mon, id, [source_folder |-> source_folder,
                      destination_path |-> destination_path,
                      pattern |-> pattern,
                      last_check |-> t,
                      known_files |-> Glob(disk, source_folder, pattern)])

\* FolderMonitor.register_folder: a no-op for an id already monitored
register_folder(mon, disk, id, source_folder, destination_path, pattern, t) ==
    IF id \in DOMAIN mon THEN mon
    ELSE DictPut(mon, id, [source_folder |-> source_folder,
                           destination_path |-> destination_path,
                           pattern |-> pattern,
                           last_check |-> t,
                           known_files |-> Glob(disk, source_folder, pattern)])

\* an iteration that also reports the known files that left the listing
changed_files_with_deleted(m, disk) ==
    {f \in Glob(disk, m.source_folder, m.pattern) :
        f \notin m.known_files \/ disk[f].mtime > m.last_check}
    \cup (m.known_files \ Glob(disk, m.source_folder, m.pattern))

\* the files one iteration of _monitor_folder reports as changed
changed_files(m, disk) ==
    {f \in Glob(disk, m.source_folder, m.pattern) :
        f \notin m.known_files \/ disk[f].mtime > m.last_check}

RECURSIVE MarkAll_marks_failed(_, _, _, _, _, _)
\* a loop that calls mark_file_complete for every result, failed ones too
MarkAll_marks_failed(states, file, disk, id, results, i) ==
    IF i > Len(results) THEN [states |-> states, file |-> file, raised |-> FALSE]
    ELSE LET r == mark_file_complete(states, disk, id, results[i].file_path, TRUE)
             f == IF r.saved THEN SaveState(r.states) ELSE file
         IN  IF r.raised THEN [states |-> r.states, file |-> f, raised |-> TRUE]
             ELSE MarkAll_marks_failed(r.states, f, disk, id, results, i + 1)

RECURSIVE MarkAll(_, _, _, _, _, _)
\* the loop of _process_files over summary.results: mark_file_complete for every
\* successful result
MarkAll(states, file, disk, id, results, i) ==
    IF i > Len(results) THEN [states |-> states, file |-> file, raised |-> FALSE]
    ELSE IF ~results[i].success THEN MarkAll(states, file, disk, id, results, i + 1)
    ELSE LET r == mark_file_complete(states, disk, id, results[i].file_path, TRUE)
             f == IF r.saved THEN SaveState(r.states) ELSE file
         IN  IF r.raised THEN [states |-> r.states, file |-> f, raised |-> TRUE]
             ELSE MarkAll(r.states, f, disk, id, results, i + 1)

\* the loop of _process_files over the summary the engine returned (or the
\* exception it raised): the successful files are marked complete
process_results(states, file, disk, id, files, out) ==
    IF out.raised
    THEN [states |-> states, file |-> file, raised |-> TRUE,
          sent |-> SeqToSet(files), ok |-> {}]
    ELSE LET marked == MarkAll(states, file, disk, id, out.summary.results, 1)
         IN  [states |-> marked.states, file |-> marked.file, raised |-> marked.raised,
              sent |-> SeqToSet(files),
              ok |-> {out.summary.results[j].file_path :
                        j \in {k \in 1..Len(out.summary.results) :
                                  out.summary.results[k].success}}]

\* UploadCoordinator._process_files: the Tracker's map and file after it, the files
\* it handed to the engine, those transferred successfully, whether it raised
process_files(states, file, active, disk, id, files, accept, rev) ==
    IF files = <<>> \/ id \notin active
    THEN [states |-> states, file |-> file, raised |-> FALSE, sent |-> {}, ok |-> {}]
    ELSE process_results(states, file, disk, id, files,
            upload_files([i \in 1..Len(files) |->
                            [path |-> files[i], size |-> SizeOf(files[i]),
                             lives |-> IF disk[files[i]].exists THEN 3 ELSE 0,
                             remote |-> IF accept[files[i]] THEN AllOk ELSE Refusing,
                             back |-> FALSE]],
                         CompletionOrder(Len(files), rev)))

\* firstOk after upload id transferred the files ok at time t
NoteOk(firstOk, id, ok, t) ==
    [firstOk EXCEPT ![id] = [p \in Paths |-> IF p \in ok /\ @[p] = 0 THEN t ELSE @[p]]]

Op(op, id, raised, sent, accept) ==
    [op |-> op, upload_id |-> id, raised |-> raised,
     sent |-> [u \in UploadIds |-> IF u = id THEN sent ELSE {}], accept |-> accept]

\* the store's answer matters only for the files that exist
Accepts == [Paths -> BOOLEAN]

\* the directories on disk
Folders == {"d1", "d2"}

\* the requests start_upload is called with: those of the Tracker, and one whose
\* source folder was removed after the request was made
StartRequests ==
    Requests \cup {[upload_id |-> "U1", source_folder |-> "d0",
                    destination_bucket |-> "bkt", pattern |-> "*"]}

\* a request that starts U1 again with a wider pattern
RestartRequests ==
    {[upload_id |-> "U1", source_folder |-> "d1", destination_bucket |-> "bkt", pattern |-> "*"]}

\* a start_upload that does not look at the source folder
source_exists_unchecked(request) == TRUE

\* request.source_folder.exists()
source_exists(request) == request.source_folder \in Folders

\* start_upload raises ValueError before anything is done
StartRefused(request, accept, rev) ==
    /\ coord.alive
    /\ ~rev
    /\ \A p \in Paths : accept[p]
    /\ coord' = [coord EXCEPT !.last = Op("startUpload", request.upload_id, TRUE, {}, accept)]
    /\ UNCHANGED <<fs, tracker, stateFile, last, nCalls, nFsOps, up, monitor, now, threads, locks>>

\* UploadCoordinator.start_upload
StartUpload(request, accept, rev) ==
    IF ~source_exists(request) THEN StartRefused(request, accept, rev) ELSE
    LET t == now + 1
        id == request.upload_id
        registered == register_upload(tracker.states, request)
        active == coord.active \cup {id}
        mon == register_folder(monitor, fs, id, request.source_folder,
                               request.destination_bucket, request.pattern, t)
        files == SeqOf(Glob(fs, request.source_folder, request.pattern))
    IN  /\ coord.alive
        /\ t <= MaxClock
        /\ \A p \in Paths : p \notin SeqToSet(files) => accept[p]
        /\ Len(files) < 2 => ~rev
        /\ \E pf \in {process_files(registered.states, SaveState(registered.states), active,
                                    fs, id, files, accept, rev)} :
            /\ tracker' = [tracker EXCEPT !.states = pf.states]
            /\ stateFile' = pf.file
            /\ coord' = [coord EXCEPT
                            !.active = active,
                            !.last = Op("startUpload", id, pf.raised, pf.sent, accept),
                            !.firstOk = NoteOk([@ EXCEPT ![id] = [p \in Paths |-> 0]],
                                               id, pf.ok, t)]
        /\ monitor' = mon
        /\ now' = t
        /\ UNCHANGED <<fs, last, nCalls, nFsOps, up, threads, locks>>

\* one iteration of FolderMonitor._monitor_folder for a monitored id, the callback
\* (UploadCoordinator._handle_file_changes) included; an exception of the callback
\* is caught by the loop, before the target's state is updated
Poll(id, accept, rev) ==
    LET t == now + 1
        m == monitor[id]
        changed == changed_files(m, fs)
        files == IF HasState(tracker.states, id) THEN SeqOf(changed) ELSE <<>>
    IN  /\ coord.alive
        /\ id \in DOMAIN monitor
        /\ t <= MaxClock
        /\ \A p \in Paths : p \notin SeqToSet(files) => accept[p]
        /\ Len(files) < 2 => ~rev
        /\ \E pf \in {process_files(tracker.states, stateFile, coord.active, fs, id, files,
                                    accept, rev)} :
            /\ tracker' = [tracker EXCEPT !.states = pf.states]
            /\ stateFile' = pf.file
            /\ monitor' = IF pf.raised THEN monitor
                          ELSE [monitor EXCEPT ![id] =
                                   [@ EXCEPT !.known_files = Glob(fs, m.source_folder, m.pattern),
                                             !.last_check = t]]
            /\ coord' = [coord EXCEPT !.last = Op("poll", id, pf.raised, pf.sent, accept),
                                      !.firstOk = NoteOk(@, id, pf.ok, t)]
        /\ now' = t
        /\ UNCHANGED <<fs, last, nCalls, nFsOps, up, threads, locks>>

\* a stop_upload that drops the engine and leaves the Monitor target
StopUpload_keeps_target(id) ==
    /\ coord.alive
    /\ id \in coord.active
    /\ coord' = [coord EXCEPT !.active = @ \ {id},
                              !.last = Op("stopUpload", id, FALSE, {}, [p \in Paths |-> TRUE])]
    /\ UNCHANGED <<fs, tracker, stateFile, last, nCalls, nFsOps, up, monitor, now, threads, locks>>

\* UploadCoordinator.stop_upload
StopUpload(id) ==
    /\ coord.alive
    /\ id \in coord.active \/ id \in DOMAIN monitor
    /\ monitor' = DictDel(monitor, id)
    /\ coord' = [coord EXCEPT !.active = @ \ {id},
                              !.last = Op("stopUpload", id, FALSE, {}, [p \in Paths |-> TRUE])]
    /\ UNCHANGED <<fs, tracker, stateFile, last, nCalls, nFsOps, up, now, threads, locks>>

\* the service's process ends: the Coordinator, its Tracker and the daemon poll
\* threads are gone, the state file stays
CoordExit ==
    /\ coord.alive
    /\ coord' = [coord EXCEPT !.alive = FALSE, !.active = {}, !.last = NoOp]
    /\ tracker' = [alive |-> FALSE, states |-> <<>>, degraded |-> FALSE]
    /\ monitor' = EmptyDict
    /\ UNCHANGED <<fs, stateFile, last, nCalls, nFsOps, up, now, threads, locks>>

RECURSIVE Resume(_, _, _, _, _, _, _, _, _, _)
\* one persisted upload of _resume_incomplete_uploads once its incomplete files
\* were processed with outcome pf: an exception ends the loop, and the construction
Resumed(ids, i, active, mon, sent, firstOk, accept, t, pf) ==
    IF pf.raised
    THEN [states |-> pf.states, file |-> pf.file, active |-> active, mon |-> mon,
          sent |-> [sent EXCEPT ![ids[i]] = pf.sent],
          firstOk |-> NoteOk(firstOk, ids[i], pf.ok, t), raised |-> TRUE]
    ELSE Resume(ids, i + 1, pf.states, pf.file, active, mon,
                [sent EXCEPT ![ids[i]] = pf.sent], NoteOk(firstOk, ids[i], pf.ok, t),
                accept, t)

\* the loop of _resume_incomplete_uploads from the i-th persisted upload on
Resume(ids, i, states, file, active, mon, sent, firstOk, accept, t) ==
    IF i > Len(ids)
    THEN [states |-> states, file |-> file, active |-> active, mon |-> mon, sent |-> sent,
          firstOk |-> firstOk, raised |-> FALSE]
    ELSE
      LET id == ids[i]
          st == StateOf(states, id)
      IN  Resumed(ids, i, active \cup {id},
                  register_folder(mon, fs, id, st.source_folder, st.destination_bucket,
                                  st.pattern, t),
                  sent, firstOk, accept, t,
                  process_files(states, file, active \cup {id}, fs, id,
                                SeqOf(get_incomplete_files(states, fs, id)),
                                accept[id], FALSE))

\* UploadCoordinator.__init__ against the state file: the Tracker loads it, every
\* persisted upload gets an engine and a Monitor target, its incomplete files
\* are processed
CoordConstruct(accept) ==
    LET t == now + 1
        loaded == LoadState(stateFile)
        ids == [i \in 1..Len(loaded) |-> loaded[i].upload_id]
    IN  /\ ~coord.alive
        /\ t <= MaxClock
        /\ \E r \in {Resume(ids, 1, loaded, stateFile, {}, EmptyDict,
                             [id \in UploadIds |-> {}], coord.firstOk, accept, t)} :
            /\ \A id \in UploadIds, p \in Paths : p \notin r.sent[id] => accept[id][p]
            /\ tracker' = [alive |-> TRUE, states |-> r.states,
                           degraded |-> (stateFile.kind = "truncated")]
            /\ stateFile' = r.file
            /\ monitor' = r.mon
            /\ coord' = [alive |-> ~r.raised, active |-> r.active,
                         last |-> [op |-> "construct", upload_id |-> "", raised |-> r.raised,
                                   sent |-> r.sent, accept |-> [p \in Paths |-> TRUE]],
                         firstOk |-> r.firstOk]
        /\ now' = t
        /\ UNCHANGED <<fs, last, nCalls, nFsOps, up, threads, locks>>

\* a file of the source folder is written: created, or modified
FileWritten(p) ==
    /\ now + 1 <= MaxClock
    /\ fs' = [fs EXCEPT ![p] = FileAt(now + 1)]
    /\ now' = now + 1
    /\ UNCHANGED <<tracker, stateFile, last, nCalls, nFsOps, up, coord, monitor, threads, locks>>

FileDeleted(p) ==
    /\ fs[p].exists
    /\ now + 1 <= MaxClock
    /\ fs' = [fs EXCEPT ![p] = NoFile]
    /\ now' = now + 1
    /\ UNCHANGED <<tracker, stateFile, last, nCalls, nFsOps, up, coord, monitor, threads, locks>>

InitCoord ==
    /\ fs \in [Paths -> {NoFile, FileAt(1)}]
    /\ tracker = [alive |-> TRUE, states |-> <<>>, degraded |-> FALSE]
    /\ stateFile = [kind |-> "missing", upload_states |-> <<>>]
    /\ last = NoCall
    /\ nCalls = 0
    /\ nFsOps = 0
    /\ up = UpIdle
    /\ coord = [CoordDown EXCEPT !.alive = TRUE]
    /\ monitor = EmptyDict
    /\ now = 1
    /\ threads = NoThreads
    /\ locks = NoLocks

NextCoord ==
    \/ \E request \in StartRequests, accept \in Accepts, rev \in BOOLEAN :
          StartUpload(request, accept, rev)
    \/ \E id \in UploadIds, accept \in Accepts, rev \in BOOLEAN : Poll(id, accept, rev)
    \/ \E id \in UploadIds : StopUpload(id)
    \/ CoordExit
    \/ \E accept \in [UploadIds -> Accepts] : CoordConstruct(accept)
    \/ \E p \in Paths : FileWritten(p)
    \/ \E p \in Paths : FileDeleted(p)

SpecCoord == InitCoord /\ [][NextCoord]_vars

\* the clients of a running Coordinator start and stop uploads, with a request
\* of StartRequests or with the one that changes the pattern of U1
NextRestart ==
    \/ \E request \in StartRequests \cup RestartRequests, accept \in Accepts, rev \in BOOLEAN :
          StartUpload(request, accept, rev)
    \/ \E id \in UploadIds : StopUpload(id)

SpecRestart == InitCoord /\ [][NextRestart]_vars

(***************************************************************************)
(* start_upload step by step (SpecStart): its registrations and its        *)
(* initial scan are two moments, and the poll thread of the target it has  *)
(* registered, and the writers of the source folder, run between them.     *)
(***************************************************************************)
\* start_upload, lines 127-144: the request is validated, the upload is registered
\* with the Tracker, the engine is made, the folder is registered with the Monitor
StartRegister(request) ==
    LET t == now + 1
        id == request.upload_id
        registered == register_upload(tracker.states, request)
    IN  /\ coord.alive
        /\ up.phase = "idle"
        /\ source_exists(request)
        /\ t <= MaxClock
        /\ tracker' = [tracker EXCEPT !.states = registered.states]
        /\ stateFile' = SaveState(registered.states)
        /\ coord' = [coord EXCEPT !.active = @ \cup {id},
                                  !.firstOk[id] = [p \in Paths |-> 0]]
        /\ monitor' = register_folder(monitor, fs, id, request.source_folder,
                                      request.destination_bucket, request.pattern, t)
        /\ up' = [phase |-> "start", request |-> request]
        /\ now' = t
        /\ UNCHANGED <<fs, last, nCalls, nFsOps, threads, locks>>

\* start_upload, lines 146-153: the folder is scanned and the files found are
\* processed
StartScan(accept, rev) ==
    LET t == now + 1
        id == up.request.upload_id
        files == SeqOf(Glob(fs, up.request.source_folder, up.request.pattern))
    IN  /\ up.phase = "start"
        /\ t <= MaxClock
        /\ \A p \in Paths : p \notin SeqToSet(files) => accept[p]
        /\ Len(files) < 2 => ~rev
        /\ \E pf \in {process_files(tracker.states, stateFile, coord.active, fs, id, files,
                                    accept, rev)} :
            /\ tracker' = [tracker EXCEPT !.states = pf.states]
            /\ stateFile' = pf.file
            /\ coord' = [coord EXCEPT
                            !.last = Op("startUpload", id, pf.raised, pf.sent, accept),
                            !.firstOk = NoteOk(@, id, pf.ok, t)]
        /\ up' = UpIdle
        /\ now' = t
        /\ UNCHANGED <<fs, last, nCalls, nFsOps, monitor, threads, locks>>

NextStart ==
    \/ \E request \in Requests : StartRegister(request)
    \/ \E accept \in Accepts, rev \in BOOLEAN : StartScan(accept, rev)
    \/ \E id \in UploadIds, accept \in Accepts, rev \in BOOLEAN : Poll(id, accept, rev)
    \/ \E p \in Paths : FileWritten(p)

SpecStart == InitCoord /\ [][NextStart]_vars

(***************************************************************************)
(* FolderMonitor with its threads (SpecMonitor).  Every registered target  *)
(* has a thread running _monitor_folder; a thread is at "idle" (in         *)
(* stop_event.wait, or about to test the while condition), at "lock" (it   *)
(* found its stop event clear and is acquiring self._lock) or at "update"  *)
(* (it holds the lock, has listed the folder and called the callback, and  *)
(* is about to record known_files and last_check).  register_folder,       *)
(* unregister_folder and stop_all are called by client threads.            *)
(***************************************************************************)
\* registrations of one upload id within a run
MaxStarts == 2

\* the clock of a run of the monitor
MaxPollClock == 4

\* a poll iteration that records the time and keeps the listing it had
poll_update_keeps_known_files(m, current_files, t) ==
    [m EXCEPT !.last_check = t]

\* lines 119-120 of _monitor_folder: the state a poll iteration records
poll_update(m, current_files, t) ==
    [m EXCEPT !.known_files = current_files, !.last_check = t]

\* the poll thread of the n-th registration of an upload id
ThreadOf(id, n) == <<id, n>>

NewThread(id) == [upload_id |-> id, pc |-> "idle", stop |-> FALSE, current_files |-> {}]

\* a poll iteration of upload id holds the lock
InFlight(id) ==
    \E k \in DOMAIN threads.loops :
        threads.loops[k].upload_id = id /\ threads.loops[k].pc = "update"

\* the target lists the path: its folder, its pattern
Watches(m, p) == FolderOf(p) = m.source_folder /\ Matches(p, m.pattern)

\* the descriptor is the one the target was registered with
SameTarget(m, target) ==
    /\ m.source_folder = target.source_folder
    /\ m.destination_path = target.destination_path
    /\ m.pattern = target.pattern

\* FolderMonitor.register_folder, called by a client thread: a call for a
\* registered id logs a warning and returns
RegisterFolder(target) ==
    LET id == target.upload_id
        t == now + 1
        n == threads.started[id] + 1
    IN  /\ threads.lock = Unlocked
        /\ IF id \in DOMAIN monitor
           THEN /\ monitor' = register_folder(monitor, fs, id, target.source_folder,
                                              target.destination_path, target.pattern, t)
                /\ threads' = [threads EXCEPT !.refused =
                                 IF SameTarget(monitor[id], target) THEN "same" ELSE "other"]
                /\ UNCHANGED <<fs, tracker, stateFile, last, nCalls, nFsOps, up, coord,
                               now, locks>>
           ELSE /\ n <= MaxStarts
                /\ t <= MaxPollClock
                /\ monitor' = register_folder(monitor, fs, id, target.source_folder,
                                              target.destination_path, target.pattern, t)
                /\ threads' = [threads EXCEPT
                                 !.stop_events = DictPut(@, id, ThreadOf(id, n)),
                                 !.monitor_threads = DictPut(@, id, ThreadOf(id, n)),
                                 !.loops = DictPut(@, ThreadOf(id, n), NewThread(id)),
                                 !.started[id] = n,
                                 !.delivered[id] = [p \in MonitorPaths |-> 0],
                                 !.written[id] = [p \in MonitorPaths |-> "none"],
                                 !.raised[id] = FALSE]
                /\ now' = t
                /\ UNCHANGED <<fs, tracker, stateFile, last, nCalls, nFsOps, up, coord, locks>>

\* _monitor_folder: "while not stop_event.is_set()", on entry and after each
\* stop_event.wait
LoopTest(k) ==
    /\ k \in DOMAIN threads.loops
    /\ threads.loops[k].pc = "idle"
    /\ threads' = [threads EXCEPT
                     !.loops = IF threads.loops[k].stop THEN DictDel(@, k)
                               ELSE [@ EXCEPT ![k].pc = "lock"]]
    /\ UNCHANGED <<fs, tracker, stateFile, last, nCalls, nFsOps, up, coord, monitor, now, locks>>

\* the counts of deliveries after the callback was called with the changed files
Delivered(delivered, id, changed) ==
    [delivered EXCEPT ![id] = [p \in MonitorPaths |->
                                  IF p \in changed /\ @[p] < 2 THEN @[p] + 1 ELSE @[p]]]

\* the ways one iteration of _monitor_folder can go: no exception, an exception
\* while the folder is listed or a file is examined (lines 103-111), an exception
\* of the callback (line 116)
PollOutcomes == {"none", "listing", "callback"}

\* a loop that gives up at the first exception of an iteration, with the lock
\* still taken
poll_raised_ends_loop(th, k) ==
    [th EXCEPT !.lock = k, !.loops = DictDel(@, k)]

\* _monitor_folder, lines 100 and 122-125: an exception inside the with block
\* releases the lock, is caught and logged, and the thread waits for the next
\* iteration; known_files and last_check are not reached
poll_raised(th, k) ==
    [th EXCEPT !.lock = Unlocked,
               !.loops[k].pc = "idle",
               !.loops[k].current_files = {}]

\* _monitor_folder, lines 100-116: the thread takes the lock, leaves the loop when
\* its upload id is gone, lists the folder and calls the callback with the changed
\* files; an exception of the listing or of the callback leaves the with block
PollScan(k, raises) ==
    /\ k \in DOMAIN threads.loops
    /\ threads.loops[k].pc = "lock"
    /\ threads.lock = Unlocked
    /\ LET id == threads.loops[k].upload_id
       IN  IF id \notin DOMAIN monitor
           THEN /\ raises = "none"
                /\ threads' = [threads EXCEPT !.loops = DictDel(@, k)]
           ELSE \E current_files \in {Glob(fs, monitor[id].source_folder, monitor[id].pattern)},
                   changed \in {changed_files(monitor[id], fs)} :
                  IF raises = "listing"
                  THEN threads' = poll_raised(threads, k)
                  ELSE IF changed = {}
                  THEN /\ raises = "none"
                       /\ threads' = [threads EXCEPT
                                        !.lock = k,
                                        !.loops[k].pc = "update",
                                        !.loops[k].current_files = current_files]
                  ELSE LET called == [threads EXCEPT
                                        !.callback = [flip |-> ~@.flip, upload_id |-> id,
                                                      files |-> changed,
                                                      raised |-> raises = "callback"],
                                        !.delivered = Delivered(@, id, changed),
                                        !.raised[id] = @ \/ raises = "callback"]
                       IN  IF raises = "callback"
                           THEN threads' = poll_raised(called, k)
                           ELSE threads' = [called EXCEPT
                                              !.lock = k,
                                              !.loops[k].pc = "update",
                                              !.loops[k].current_files = current_files]
    /\ UNCHANGED <<fs, tracker, stateFile, last, nCalls, nFsOps, up, coord, monitor, now, locks>>

\* _monitor_folder, lines 118-125: the iteration records the listing it made and
\* the time, releases the lock and waits
PollUpdate(k) ==
    /\ k \in DOMAIN threads.loops
    /\ threads.loops[k].pc = "update"
    /\ now + 1 <= MaxPollClock
    /\ monitor' = [monitor EXCEPT ![threads.loops[k].upload_id] =
                      poll_update(@, threads.loops[k].current_files, now + 1)]
    /\ threads' = [threads EXCEPT !.lock = Unlocked,
                                  !.loops[k].pc = "idle",
                                  !.loops[k].current_files = {}]
    /\ now' = now + 1
    /\ UNCHANGED <<fs, tracker, stateFile, last, nCalls, nFsOps, up, coord, locks>>

\* an unregister_folder that leaves the entry of the thread map
unregister_folder_keeps_thread(th, id) ==
    LET k == th.stop_events[id]
    IN  [th EXCEPT
           !.loops = IF k \notin DOMAIN @ THEN @
                     ELSE IF @[k].pc = "idle" THEN DictDel(@, k)
                     ELSE [@ EXCEPT ![k].stop = TRUE],
           !.stop_events = DictDel(@, id)]

\* the body of unregister_folder once it holds the lock: the stop event is set, the
\* thread is joined (a thread that is waiting for the lock outlives the join), the
\* three entries are popped
unregister_folder(th, id) ==
    LET k == th.stop_events[id]
    IN  [th EXCEPT
           !.loops = IF k \notin DOMAIN @ THEN @
                     ELSE IF @[k].pc = "idle" THEN DictDel(@, k)
                     ELSE [@ EXCEPT ![k].stop = TRUE],
           !.stop_events = DictDel(@, id),
           !.monitor_threads = DictDel(@, id)]

\* FolderMonitor.unregister_folder, called by a client thread or by stop_all: it
\* starts by acquiring the lock
UnregisterFolder(caller, id) ==
    /\ threads.lock = Unlocked
    /\ caller = "stop_all" => threads.stop_all = "running"
    /\ IF id \notin DOMAIN monitor
       THEN UNCHANGED vars              \* "not being monitored"
       ELSE /\ monitor' = DictDel(monitor, id)
            /\ threads' = [unregister_folder(threads, id) EXCEPT
                             !.stop_all = IF caller = "stop_all" /\ DOMAIN monitor = {id}
                                          THEN "none" ELSE @]
            /\ UNCHANGED <<fs, tracker, stateFile, last, nCalls, nFsOps, up, coord, now, locks>>

\* FolderMonitor.stop_all (UploadCoordinator.stop_all starts by calling it): it
\* takes the lock and calls unregister_folder for every registered id while it
\* holds it; with no id registered it returns at once
StopAll ==
    /\ threads.lock = Unlocked
    /\ threads.stop_all = "none"
    /\ IF DOMAIN monitor = {}
       THEN UNCHANGED vars
       ELSE /\ threads' = [threads EXCEPT !.lock = StopAllCaller, !.stop_all = "running"]
            /\ UNCHANGED <<fs, tracker, stateFile, last, nCalls, nFsOps, up, coord, monitor, now, locks>>

\* what the write of a path is to a target: the creation of a file it does not know,
\* the modification of a file it knows, or a write after the target was unregistered
WriteKind(id, p) ==
    IF id \notin DOMAIN monitor
    THEN IF threads.started[id] > 0 THEN "stopped" ELSE "none"
    ELSE IF ~Watches(monitor[id], p) THEN "none"
    ELSE IF fs[p].exists /\ p \in monitor[id].known_files THEN "modified"
    ELSE IF ~fs[p].exists /\ p \notin monitor[id].known_files THEN "created"
    ELSE "none"

\* a watched file is created or modified: its mtime is the time of the write
WatchedWritten(p) ==
    /\ now + 1 <= MaxPollClock
    /\ fs' = [fs EXCEPT ![p] = FileAt(now + 1)]
    /\ threads' = [threads EXCEPT
                     !.delivered = [id \in UploadIds |-> [@[id] EXCEPT ![p] = 0]],
                     !.written = [id \in UploadIds |-> [@[id] EXCEPT ![p] = WriteKind(id, p)]]]
    /\ now' = now + 1
    /\ UNCHANGED <<tracker, stateFile, last, nCalls, nFsOps, up, coord, monitor, locks>>

WatchedDeleted(p) ==
    /\ fs[p].exists
    /\ now + 1 <= MaxPollClock
    /\ fs' = [fs EXCEPT ![p] = NoFile]
    /\ threads' = [threads EXCEPT
                     !.delivered = [id \in UploadIds |-> [@[id] EXCEPT ![p] = 0]],
                     !.written = [id \in UploadIds |-> [@[id] EXCEPT ![p] = "none"]]]
    /\ now' = now + 1
    /\ UNCHANGED <<tracker, stateFile, last, nCalls, nFsOps, up, coord, monitor, locks>>

InitMonitor ==
    /\ fs \in [MonitorPaths -> {NoFile, FileAt(1)}]
    /\ tracker = [alive |-> FALSE, states |-> <<>>, degraded |-> FALSE]
    /\ stateFile = [kind |-> "missing", upload_states |-> <<>>]
    /\ last = NoCall
    /\ nCalls = 0
    /\ nFsOps = 0
    /\ up = UpIdle
    /\ coord = CoordDown
    /\ monitor = EmptyDict
    /\ now = 1
    /\ threads = NoThreads
    /\ locks = NoLocks

ThreadKeys == {ThreadOf(id, n) : id \in UploadIds, n \in 1..MaxStarts}

NextMonitor ==
    \/ \E target \in Targets : RegisterFolder(target)
    \/ \E k \in ThreadKeys : LoopTest(k)
    \/ \E k \in ThreadKeys, raises \in PollOutcomes : PollScan(k, raises)
    \/ \E k \in ThreadKeys : PollUpdate(k)
    \/ \E caller \in {"client", "stop_all"}, id \in UploadIds : UnregisterFolder(caller, id)
    \/ StopAll
    \/ \E p \in MonitorPaths : WatchedWritten(p)
    \/ \E p \in MonitorPaths : WatchedDeleted(p)

SpecMonitor == InitMonitor /\ [][NextMonitor]_vars

\* a thread that can go on does: stop_all's call of unregister_folder is made as
\* soon as the lock lets it
SpecMonitorFair ==
    SpecMonitor /\ WF_vars(\E id \in UploadIds : UnregisterFolder("stop_all", id))

(***************************************************************************)
(* Startup resume (SpecResume): a process with a Tracker leaves a state    *)
(* file behind, with uploads, completed files and in-progress sessions     *)
(* (test_partial_upload_resume writes such a file); files are written and  *)
(* deleted; then a Coordinator is constructed against the file.            *)
(***************************************************************************)
\* the process that writes the state file runs: no Coordinator was constructed yet
Seeding == ~coord.alive /\ coord.last.op = "none"

\* constructions of a Coordinator within a run
MaxResumes == 1

\* UploadCoordinator.__init__ in a fresh process
ResumeConstruct(accept) ==
    /\ ~tracker.alive
    /\ now <= MaxResumes
    /\ CoordConstruct(accept)

InitResume ==
    /\ fs \in [Paths -> {NoFile, FileAt(1)}]
    /\ tracker = [alive |-> TRUE, states |-> <<>>, degraded |-> FALSE]
    /\ stateFile = [kind |-> "missing", upload_states |-> <<>>]
    /\ last = [NoCall EXCEPT !.op = "init"]
    /\ nCalls = 0
    /\ nFsOps = 0
    /\ up = UpIdle
    /\ coord = CoordDown
    /\ monitor = EmptyDict
    /\ now = 1
    /\ threads = NoThreads
    /\ locks = NoLocks

NextResume ==
    \/ \E request \in Requests : Seeding /\ Register(request)
    \/ \E id \in UploadIds, p \in Paths : Seeding /\ MarkComplete(id, p, TRUE)
    \/ \E id \in UploadIds, p \in Paths, desc \in {d \in Descriptors : d.part_number = 1} :
          Seeding /\ RegisterChunkedSession(id, p, desc)
    \/ ~coord.alive /\ TrackerInit
    \/ ~coord.alive /\ ProcessExit
    \/ \E p \in Paths, m \in 1..MaxMtime : ~tracker.alive /\ WriteFile(p, m)
    \/ \E p \in Paths : ~tracker.alive /\ DeleteFile(p)
    \/ \E accept \in Accepts : ResumeConstruct([id \in UploadIds |-> accept])
    \/ CoordExit

SpecResume == InitResume /\ [][NextResume]_vars

(***************************************************************************)
(* The locks (SpecLocks).  Each thread walks through its call; a step      *)
(* [from, to, acquire, release] takes it from one point of the code to the *)
(* next, entering the "with self._lock" blocks named in acquire, which it  *)
(* can do only when nobody holds those locks (threading.Lock is not        *)
(* reentrant), and leaving those named in release.                         *)
(***************************************************************************)
Move(from, to, acquire, release) ==
    [from |-> from, to |-> to, acquire |-> acquire, release |-> release]

\* UploadCoordinator._process_files from its "with self._lock" on, and the return
\* to the point `back` of the caller, which holds the locks `outer`: the engine is
\* looked up and upload_files runs inside the with block, as do the calls of
\* mark_file_complete, each inside the Tracker's lock; an exception of upload_files
\* or of mark_file_complete leaves every with block on its way to the caller's
\* handler, at the point `handler`
process_files_moves(from, back, handler, outer) ==
    { Move(from, "no_uploader", {"coordinator"}, {}),
      Move("no_uploader", back, {}, {"coordinator"}),
      Move(from, "upload_files", {"coordinator"}, {}),
      Move("upload_files", "results", {}, {}),
      Move("upload_files", handler, {}, {"coordinator"} \cup outer),
      Move("results", "mark_file_complete", {"tracker"}, {}),
      Move("mark_file_complete", "results", {}, {"tracker"}),
      Move("mark_file_complete", handler, {}, {"tracker", "coordinator"} \cup outer),
      Move("results", back, {}, {"coordinator"}) }

\* one iteration of FolderMonitor._monitor_folder with the callback
\* UploadCoordinator._handle_file_changes: the whole iteration is inside the
\* Monitor's lock
poll_moves ==
    { Move("idle", "listing", {"monitor"}, {}),
      Move("listing", "update", {}, {}),
      Move("listing", "get_upload_state", {"tracker"}, {}),
      Move("get_upload_state", "update", {}, {"tracker"}),
      Move("get_upload_state", "process_files", {}, {"tracker"}),
      Move("update", "idle", {}, {"monitor"}) }
    \cup process_files_moves("process_files", "update", "idle", {"monitor"})

\* UploadCoordinator.start_upload
start_upload_moves ==
    { Move("idle", "register_upload", {"tracker"}, {}),
      Move("register_upload", "registered", {}, {"tracker"}),
      Move("registered", "set_engine", {"coordinator"}, {}),
      Move("set_engine", "engine_set", {}, {"coordinator"}),
      Move("engine_set", "register_folder", {"monitor"}, {}),
      Move("register_folder", "scan_folder", {}, {"monitor"}),
      Move("scan_folder", "idle", {}, {}) }
    \cup process_files_moves("scan_folder", "idle", "idle", {})

\* UploadCoordinator.stop_upload
stop_upload_moves ==
    { Move("idle", "unregister_folder", {"monitor"}, {}),
      Move("unregister_folder", "unregistered", {}, {"monitor"}),
      Move("unregistered", "pop_engine", {"coordinator"}, {}),
      Move("pop_engine", "idle", {}, {"coordinator"}) }

\* the code each thread runs
MovesOf(c) ==
    IF c = "start_upload" THEN start_upload_moves
    ELSE IF c = "stop_upload" THEN stop_upload_moves
    ELSE poll_moves

\* nobody holds the lock
NotHeld(l) == \A c \in Callers : l \notin locks.held[c]

\* thread c makes the move
Take(c, move) ==
    /\ locks.pc[c] = move.from
    /\ \A l \in move.acquire : NotHeld(l)
    /\ locks' = [locks EXCEPT !.pc[c] = move.to,
                              !.held[c] = (@ \cup move.acquire) \ move.release]
    /\ UNCHANGED <<fs, tracker, stateFile, last, nCalls, nFsOps, up, coord, monitor, now, threads>>

InitLocks ==
    /\ fs = [p \in Paths |-> NoFile]
    /\ tracker = [alive |-> TRUE, states |-> <<>>, degraded |-> FALSE]
    /\ stateFile = [kind |-> "missing", upload_states |-> <<>>]
    /\ last = NoCall
    /\ nCalls = 0
    /\ nFsOps = 0
    /\ up = UpIdle
    /\ coord = [CoordDown EXCEPT !.alive = TRUE]
    /\ monitor = EmptyDict
    /\ now = 1
    /\ threads = NoThreads
    /\ locks = NoLocks

NextLocks == \E c \in Callers : \E move \in MovesOf(c) : Take(c, move)

SpecLocks == InitLocks /\ [][NextLocks]_vars

(***************************************************************************)
(* The worker pool of one upload_files call: the tasks of the batch are     *)
(* queued by executor.submit, run by the workers of the ThreadPoolExecutor, *)
(* and their futures are taken by the as_completed loop of the caller.      *)
(***************************************************************************)
\* S3Uploader.__init__: max_workers
max_workers == 5

\* the largest batch upload_files is called with
MaxPoolBatch == 6

\* the tasks a worker is running
RunningTasks(tasks) == {i \in 1..Len(tasks) : tasks[i] = "running"}

\* a pool that starts a thread for every task that is submitted
worker_free_unbounded(tasks) == TRUE

\* ThreadPoolExecutor(max_workers=self.max_workers): a queued task is taken when
\* one of the max_workers workers has none
worker_free(tasks) == Cardinality(RunningTasks(tasks)) < max_workers

\* upload_files, lines 260-270: the executor is made and every file of the batch
\* is submitted
PoolSubmit(n) ==
    /\ up.phase = "idle"
    /\ up' = [phase |-> "pool", tasks |-> [i \in 1..n |-> "queued"], main |-> "as_completed"]
    /\ UNCHANGED <<fs, tracker, stateFile, last, nCalls, nFsOps, coord, monitor, now, threads, locks>>

\* a worker takes the task at the head of the queue and calls _upload_file
PoolStart(i) ==
    /\ up.phase = "pool"
    /\ i \in 1..Len(up.tasks) /\ up.tasks[i] = "queued"
    /\ \A j \in 1..(i - 1) : up.tasks[j] # "queued"
    /\ worker_free(up.tasks)
    /\ up' = [up EXCEPT !.tasks[i] = "running"]
    /\ UNCHANGED <<fs, tracker, stateFile, last, nCalls, nFsOps, coord, monitor, now, threads, locks>>

\* _upload_file returns or raises in its worker: the future is done
PoolFinish(i) ==
    /\ up.phase = "pool"
    /\ i \in 1..Len(up.tasks) /\ up.tasks[i] = "running"
    /\ up' = [up EXCEPT !.tasks[i] = "done"]
    /\ UNCHANGED <<fs, tracker, stateFile, last, nCalls, nFsOps, coord, monitor, now, threads, locks>>

\* upload_files, lines 272-293: as_completed yields a future that is done and the
\* loop appends its result; the handler of a future that raised can raise itself
\* (file_path.stat() at line 290), which ends the loop
PoolCollect(i, raises) ==
    /\ up.phase = "pool" /\ up.main = "as_completed"
    /\ i \in 1..Len(up.tasks) /\ up.tasks[i] = "done"
    /\ up' = [up EXCEPT !.tasks[i] = "collected",
                        !.main = IF raises THEN "raising" ELSE @]
    /\ UNCHANGED <<fs, tracker, stateFile, last, nCalls, nFsOps, coord, monitor, now, threads, locks>>

\* upload_files, lines 260 and 295-301: the loop is over, by its end or by an
\* exception, and the with block is left: ThreadPoolExecutor.__exit__ is
\* shutdown(wait=True), it returns when every worker has finished its tasks;
\* then the call returns the summary, or raises
PoolReturn ==
    /\ up.phase = "pool"
    /\ \/ up.main = "raising"
       \/ \A i \in 1..Len(up.tasks) : up.tasks[i] = "collected"
    /\ \A i \in 1..Len(up.tasks) : up.tasks[i] \in {"done", "collected"}
    /\ up' = [up EXCEPT !.phase = "returned",
                        !.main = IF up.main = "raising" THEN "raised" ELSE "returned"]
    /\ UNCHANGED <<fs, tracker, stateFile, last, nCalls, nFsOps, coord, monitor, now, threads, locks>>

InitPool == InitUploader

NextPool ==
    \/ \E n \in 0..MaxPoolBatch : PoolSubmit(n)
    \/ \E i \in 1..MaxPoolBatch : PoolStart(i)
    \/ \E i \in 1..MaxPoolBatch : PoolFinish(i)
    \/ \E i \in 1..MaxPoolBatch, raises \in BOOLEAN : PoolCollect(i, raises)
    \/ PoolReturn

SpecPool == InitPool /\ [][NextPool]_vars

(***************************************************************************)
(* Properties of the transfer engine (SpecUploader).                       *)
(***************************************************************************)
\* the entries of a log that are calls of the given kind
CallsOf(log, call) == {i \in 1..Len(log) : log[i].call = call}

\* C2: uploadFile on a file at or below the chunk threshold whose put fails twice
\* with a transient error code and then succeeds returns a successful result
\* after exactly three put attempts.
C2_RetriesTransientPut ==
    (/\ up.phase = "file" /\ up.size <= chunk_size /\ up.lives >= 1
     /\ up.remote.putFails = 2 /\ is_retryable_error(up.remote.code))
        => /\ ~up.out.raised
           /\ up.out.result.success
           /\ Cardinality(CallsOf(up.out.log, "upload_file")) = 3

\* C3: uploadFile never raises: whatever fails, locally or remotely, for a file
\* that exists, is missing or vanishes, it returns a result, and a missing file
\* gives a result with success = FALSE and the error in it.
C3_UploadFileNeverRaises ==
    up.phase = "file"
        => /\ ~up.out.raised
           /\ ~up.out.result.success => up.out.result.error # "None"
           /\ up.lives = 0 => ~up.out.result.success

\* the file is on disk throughout and the store accepts it
OwnTransferSucceeds(f) == f.lives = 3 /\ f.remote = AllOk

\* C4: uploadFiles never raises: it returns a summary with exactly one result per
\* input path, total_files = the number of paths = successful + failed, and every
\* file whose own transfer succeeds is reported successful.
C4_UploadFilesNeverRaises ==
    up.phase = "batch"
        => /\ ~up.out.raised
           /\ LET sum == up.out.summary
                  n == Len(up.files)
              IN  /\ Len(sum.results) = n
                  /\ sum.total_files = n
                  /\ sum.successful_uploads + sum.failed_uploads = n
                  /\ \A i \in 1..n :
                        /\ Cardinality({j \in 1..Len(sum.results) :
                                          sum.results[j].file_path = up.files[i].path}) = 1
                        /\ OwnTransferSucceeds(up.files[i]) =>
                              \E j \in 1..Len(sum.results) :
                                  /\ sum.results[j].file_path = up.files[i].path
                                  /\ sum.results[j].success

\* the session was opened: create_multipart_upload returned its id
Opened(log, session) ==
    \E i \in CallsOf(log, "create_multipart_upload") : log[i].session = session /\ log[i].ok

\* the retries of some part are exhausted: MaxAttempts failed upload_part calls
PartExhausted(log, session) ==
    \E n \in PartNumbers :
        Cardinality({i \in CallsOf(log, "upload_part") :
                        log[i].session = session /\ log[i].part = n /\ ~log[i].ok}) = MaxAttempts

Finalized(log, session, ok) ==
    \E i \in CallsOf(log, "complete_multipart_upload") : log[i].session = session /\ log[i].ok = ok

Aborts(log, session) == {i \in CallsOf(log, "abort_multipart_upload") : log[i].session = session}

\* C5: in a chunked transfer, when the session was opened and a part upload (its
\* retries exhausted) or the finalize call fails, the call returns a failed result
\* and has issued an abort for that session after the failing call; no abort is
\* issued for a session whose finalize call succeeded.
C5_AbortOnChunkedFailure ==
    (up.phase = "file" /\ up.size > chunk_size)
        => LET log == up.out.log
               session == SessionOf(up.s3_key)
           IN  /\ (Opened(log, session)
                     /\ (PartExhausted(log, session) \/ Finalized(log, session, FALSE)))
                     => /\ ~up.out.raised
                        /\ ~up.out.result.success
                        /\ \E a \in Aborts(log, session) :
                              \A i \in 1..Len(log) :
                                  log[i].call \in {"upload_part", "complete_multipart_upload"}
                                      => i < a
               /\ Finalized(log, session, TRUE) => Aborts(log, session) = {}

\* the second part of an opened session ran out of retries and the session was aborted
C5_Witness ==
    /\ up.phase = "file" /\ up.size > chunk_size
    /\ Opened(up.out.log, SessionOf(up.s3_key))
    /\ \E i \in CallsOf(up.out.log, "upload_part") : up.out.log[i].part = 2 /\ ~up.out.log[i].ok
    /\ PartExhausted(up.out.log, SessionOf(up.s3_key))
    /\ Aborts(up.out.log, SessionOf(up.s3_key)) # {}
    /\ ~up.out.result.success

(***************************************************************************)
(* Properties of the Tracker (SpecTracker).                                *)
(***************************************************************************)
Completed(st) == SeqToSet(st.completed_files)

\* how often path p occurs in the list completed_files
Occurrences(st, p) == Cardinality({i \in 1..Len(st.completed_files) : st.completed_files[i] = p})

\* C1: in every reachable state of the Tracker no path is both in completed_files
\* and a key of in_progress_files of the same UploadState.
C1_CompletedInProgressDisjoint ==
    \A i \in 1..Len(tracker.states) :
        Completed(tracker.states[i]) \cap DOMAIN tracker.states[i].in_progress_files = {}

\* the set C7 describes: the listed files that are not completed or whose current
\* modification time is not the recorded one, and every in-progress key
C7_Described(states, disk, id) ==
    IF ~HasState(states, id) THEN {}
    ELSE
      LET st == StateOf(states, id)
          listed == {f \in Paths : disk[f].exists /\ FolderOf(f) = st.source_folder
                                   /\ Matches(f, st.pattern)}
          unchanged(f) == f \in DOMAIN st.last_modified_times
                          /\ st.last_modified_times[f] = disk[f].mtime
      IN  {f \in listed : f \notin Completed(st) \/ ~unchanged(f)}
          \cup {f \in Paths : f \in DOMAIN st.in_progress_files}

\* C7: every getIncompleteFiles call returns exactly the listed files that are not
\* completed or were modified since they were recorded, united with the in-progress
\* keys; for an upload id without state it returns the empty set.
C7_IncompleteFilesExact ==
    [][(nCalls' = nCalls + 1 /\ last'.op = "getIncompleteFiles")
         => last'.ret = C7_Described(tracker.states, fs, last'.upload_id)]_vars

\* a call that left out a completed, unmodified file and returned a completed file
\* whose modification time had been changed
C7_Witness ==
    /\ last.op = "getIncompleteFiles"
    /\ HasState(tracker.states, last.upload_id)
    /\ LET st == StateOf(tracker.states, last.upload_id)
       IN  \E p, q \in Completed(st) :
              /\ p \in last.ret /\ fs[p].exists
              /\ p \in DOMAIN st.last_modified_times
              /\ st.last_modified_times[p] # fs[p].mtime
              /\ q \notin last.ret /\ fs[q].exists

\* the states a fresh Tracker would hold and those of the running one agree, for
\* every upload id, on the completed files, the in-progress descriptors and the times
SameUploadStates(a, b) ==
    \A id \in UploadIds :
        /\ HasState(a, id) = HasState(b, id)
        /\ HasState(a, id) =>
              /\ Completed(StateOf(a, id)) = Completed(StateOf(b, id))
              /\ StateOf(a, id).in_progress_files = StateOf(b, id).in_progress_files
              /\ StateOf(a, id).last_modified_times = StateOf(b, id).last_modified_times

\* C8: after any sequence of register, markComplete and registerChunkedSession
\* calls a fresh Tracker built from the state file holds the same upload states
\* as the Tracker that wrote it.
C8_RoundTrip ==
    (tracker.alive /\ last.op \in {"register", "markComplete", "registerChunkedSession"})
        => SameUploadStates(LoadState(stateFile), tracker.states)

C10_MarkCompleteIdempotent ==
    [][(nCalls' = nCalls + 1 /\ last'.op = "markComplete" /\ last'.success /\ last'.again)
         => /\ tracker'.states = tracker.states
            /\ HasState(tracker'.states, last'.upload_id)
                  => Occurrences(StateOf(tracker'.states, last'.upload_id), last'.path) = 1]_vars

\* the second of two equal successful markComplete calls has returned
C10_Witness ==
    /\ last.op = "markComplete" /\ last.success /\ last.again /\ ~last.raised
    /\ HasState(tracker.states, last.upload_id)
    /\ last.path \in Completed(StateOf(tracker.states, last.upload_id))

(***************************************************************************)
(* Properties of the Coordinator with its Tracker and Monitor (SpecCoord). *)
(***************************************************************************)
\* the current listing of the source folder of a persisted or registered upload
ListingOf(states, id) ==
    Glob(fs, StateOf(states, id).source_folder, StateOf(states, id).pattern)

\* a step of start_upload, of the construction, of a poll: each advances the clock
\* and leaves the files alone
CoordStep(op) == now' = now + 1 /\ fs' = fs /\ coord'.last.op = op

\* every file upload id lists was transferred successfully by this id since its
\* last start, and none was written since its first successful transfer
TransferredUnmodified(states, id) ==
    /\ HasState(states, id)
    /\ \A f \in ListingOf(states, id) :
          /\ coord.firstOk[id][f] > 0
          /\ fs[f].mtime < coord.firstOk[id][f]

\* start_upload whose every listed file the store accepts: completed is the listing
C6_StartCompletesListing ==
    LET id == coord'.last.upload_id
    IN  (/\ CoordStep("startUpload")
         /\ \A f \in ListingOf(tracker'.states, id) : coord'.last.accept[f])
        => /\ ~coord'.last.raised
           /\ Completed(StateOf(tracker'.states, id)) = ListingOf(tracker'.states, id)

\* the construction from the state file: nothing is incomplete, nothing is sent,
\* for an upload whose files were transferred and are unmodified
C6_RestartSendsNothing ==
    CoordStep("construct") =>
        \A id \in UploadIds :
            TransferredUnmodified(LoadState(stateFile), id)
            => /\ coord'.last.sent[id] = {}
               /\ get_incomplete_files(tracker'.states, fs, id) = {}

\* the first poll of the restarted service sends nothing for such an upload
C6_FirstPollSendsNothing ==
    (/\ CoordStep("poll")
     /\ coord.last.op = "construct"
     /\ TransferredUnmodified(tracker.states, coord'.last.upload_id))
    => coord'.last.sent[coord'.last.upload_id] = {}

\* C6: when an upload is started on a folder whose listed files (x.txt alone, or
\* more) are all transferred successfully, completed is exactly the listing after
\* the initial scan; and when the Coordinator with its Tracker is then constructed
\* again from the state file, with those files unmodified, getIncompleteFiles of
\* the upload is empty and neither the construction nor the first poll after it
\* hands a file of the upload to the engine.
C6_ScanCompletesRestartResendsNothing ==
    [][C6_StartCompletesListing /\ C6_RestartSendsNothing /\ C6_FirstPollSendsNothing]_vars

\* a restarted Coordinator that found a started upload with x.txt transferred and
\* unmodified, and sent nothing
C6_Witness ==
    /\ coord.alive
    /\ coord.last.op = "construct"
    /\ \E id \in UploadIds :
          /\ HasState(tracker.states, id)
          /\ ListingOf(tracker.states, id) # {}
          /\ \A f \in ListingOf(tracker.states, id) :
                coord.firstOk[id][f] > 0 /\ fs[f].mtime < coord.firstOk[id][f]
          /\ Completed(StateOf(tracker.states, id)) = ListingOf(tracker.states, id)
          /\ coord.last.sent[id] = {}


(***************************************************************************)
(* Properties of the folder monitor (SpecMonitor).                         *)
(***************************************************************************)
\* the target of the upload id is registered
Active(id) == id \in DOMAIN monitor

\* the file as it is on disk is one the next poll of the target reports
Detectable(id, p) == p \in changed_files(monitor[id], fs)

\* a step in which the callback is invoked
Invoked == threads'.callback # threads.callback

\* C11: while the callback of an active target has not raised, a file created
\* under the target is reported by the next poll and by no poll after it (until
\* the poll that reports it the file is one the poll will report, and no version
\* of a file is delivered twice), and a poll invokes the callback once, with the
\* set of all the files that changed since the poll before it.
C11_CreatedFileDeliveredOnce ==
    /\ [](\A id \in UploadIds, p \in MonitorPaths :
            /\ Active(id) /\ ~threads.raised[id] => threads.delivered[id][p] <= 1
            /\ Active(id) /\ threads.written[id][p] = "created"
                 /\ threads.delivered[id][p] = 0 => Detectable(id, p))
    /\ [][Invoked =>
            /\ Active(threads'.callback.upload_id)
            /\ threads'.callback.files = changed_files(monitor[threads'.callback.upload_id], fs)
            /\ threads'.callback.files # {}]_vars

\* a created file was delivered, the poll recorded it, and a later poll of the same
\* target found nothing changed
C11_Witness ==
    \E id \in UploadIds, p \in MonitorPaths :
        /\ Active(id) /\ ~threads.raised[id]
        /\ threads.written[id][p] = "created"
        /\ threads.delivered[id][p] = 1
        /\ p \in monitor[id].known_files
        /\ InFlight(id)
        /\ changed_files(monitor[id], fs) = {}

\* C12: a file a target knows whose modification time is changed while the target
\* is active, between polls or while a poll iteration is running, is reported by a
\* later poll: until the callback is invoked with it the file stays one the next
\* poll of the target reports.
C12_ModifiedFileDelivered ==
    \A id \in UploadIds, p \in MonitorPaths :
        Active(id) /\ threads.written[id][p] = "modified" /\ threads.delivered[id][p] = 0
            => Detectable(id, p)

\* C13: the monitor emits no deletion event: every callback invocation carries a
\* non-empty set of files that are on disk, in the listing of the target, when the
\* poll runs, and a file that is absent has not been delivered to any target since
\* it was deleted.
C13_NoDeletionEvents ==
    /\ [](\A id \in UploadIds, p \in MonitorPaths :
            ~fs[p].exists => threads.delivered[id][p] = 0)
    /\ [][Invoked =>
            /\ threads'.callback.files # {}
            /\ threads'.callback.files \subseteq
                   Glob(fs, monitor[threads'.callback.upload_id].source_folder,
                        monitor[threads'.callback.upload_id].pattern)]_vars

\* a poll ran while a file its target knows was absent, and the callback has never
\* been invoked
C13_Witness ==
    \E k \in DOMAIN threads.loops, p \in MonitorPaths :
        /\ threads.loops[k].pc = "update"
        /\ Active(threads.loops[k].upload_id)
        /\ p \in monitor[threads.loops[k].upload_id].known_files
        /\ p \notin threads.loops[k].current_files
        /\ ~fs[p].exists
        /\ threads.callback.upload_id = ""

\* C14: with two targets registered, every callback invocation carries the upload
\* id of a registered target and only files of that target's own source folder and
\* pattern, and a file is delivered to a target only if the target watches it.
C14_NoCrossDelivery ==
    /\ [](\A id \in UploadIds, p \in MonitorPaths :
            Active(id) /\ threads.delivered[id][p] > 0 => Watches(monitor[id], p))
    /\ [][Invoked =>
            /\ Active(threads'.callback.upload_id)
            /\ \A p \in threads'.callback.files :
                   Watches(monitor[threads'.callback.upload_id], p)]_vars

\* two targets are registered and the last invocation delivered a file created
\* under one of them, under its id and not under the other's
C14_Witness ==
    /\ DOMAIN monitor = UploadIds
    /\ \E p \in MonitorPaths :
          /\ threads.written["U1"][p] = "created"
          /\ threads.callback.upload_id = "U1"
          /\ p \in threads.callback.files
          /\ threads.delivered["U1"][p] = 1
          /\ threads.delivered["U2"][p] = 0

\* C15: once unregister_folder(id) has returned, id has no entry in the registry,
\* the stop-event map or the thread map (the three maps always hold the same ids),
\* the callback is invoked only for an id that is registered, and a call that
\* leaves the set of registered ids alone leaves the stop events and threads alone.
C15_UnregisterRemovesTarget ==
    /\ [](/\ DOMAIN threads.stop_events = DOMAIN monitor
          /\ DOMAIN threads.monitor_threads = DOMAIN monitor)
    /\ [][Invoked => Active(threads'.callback.upload_id)
                     /\ threads'.callback.upload_id \in DOMAIN monitor']_vars
    /\ [][DOMAIN monitor' = DOMAIN monitor =>
            /\ threads'.stop_events = threads.stop_events
            /\ threads'.monitor_threads = threads.monitor_threads]_vars

\* a target was unregistered, a file was written in its folder afterwards, its
\* poll thread has ended, and the callback was never invoked
C15_Witness ==
    \E id \in UploadIds, p \in MonitorPaths :
        /\ ~Active(id)
        /\ id \notin DOMAIN threads.stop_events
        /\ id \notin DOMAIN threads.monitor_threads
        /\ threads.written[id][p] = "stopped"
        /\ fs[p].exists
        /\ \A k \in DOMAIN threads.loops : threads.loops[k].upload_id # id
        /\ threads.callback.upload_id = ""

\* C16: stop_all terminates whatever the number of active targets, and when it
\* returns no target is registered: a stop_all that has started on a monitor with
\* registered targets comes to its end with the registry empty.
C16_StopAllTerminates ==
    (threads.stop_all = "running") ~> (threads.stop_all = "none" /\ DOMAIN monitor = {})

(***************************************************************************)
(* Further properties of the transfer engine (SpecUploader).               *)
(***************************************************************************)
\* the calls of the chunked path in a log
ChunkedCalls(log) ==
    CallsOf(log, "create_multipart_upload") \cup CallsOf(log, "upload_part")
        \cup CallsOf(log, "complete_multipart_upload")

\* the upload_part calls of part n
PartCalls(log, n) == {i \in CallsOf(log, "upload_part") : log[i].part = n}

\* the store accepts the session, every part at its first attempt, and the finalize
ChunkedAccepted(remote, size) ==
    /\ remote.createOk /\ remote.completeOk
    /\ \A n \in 1..NumParts(size) : remote.partFails[n] = 0

C18_FailingPutAttemptedThrice ==
    (/\ up.phase = "file" /\ up.size <= chunk_size /\ up.lives >= 1
     /\ up.remote.putFails = MaxAttempts)
        => /\ ~up.out.raised
           /\ ~up.out.result.success
           /\ up.out.result.error = up.remote.code
           /\ Cardinality(CallsOf(up.out.log, "upload_file")) = MaxAttempts

\* C19: a put or a part upload that fails with an error code that is not retryable
\* is attempted exactly once, and the transfer is returned as failed.
C19_PermanentErrorNotRetried ==
    (up.phase = "file" /\ up.lives = 3 /\ ~is_retryable_error(up.remote.code))
        => LET log == up.out.log
           IN  /\ (\E i \in CallsOf(log, "upload_file") : ~log[i].ok)
                     => /\ Cardinality(CallsOf(log, "upload_file")) = 1
                        /\ ~up.out.raised /\ ~up.out.result.success
               /\ \A n \in PartNumbers :
                     (\E i \in PartCalls(log, n) : ~log[i].ok)
                         => /\ Cardinality(PartCalls(log, n)) = 1
                            /\ ~up.out.raised /\ ~up.out.result.success

RECURSIVE SentBytes(_)
\* the bytes the store accepted as parts
SentBytes(log) ==
    IF log = <<>> THEN 0
    ELSE (IF Head(log).call = "upload_part" /\ Head(log).ok THEN Head(log).size ELSE 0)
         + SentBytes(Tail(log))

\* the upload_part calls the store accepted
AcceptedParts(log) == {i \in CallsOf(log, "upload_part") : log[i].ok}

\* C32: a chunked transfer of a file of size S finalizes only after every part
\* 1..ceil(S/chunk_size) was accepted, with the list of these parts in increasing
\* part number, each with the tag the store answered for it; when the transfer
\* succeeds each part was accepted once, in increasing order, no other part was
\* sent, and the sizes of the parts sum to S.
C32_ChunkedPartsInOrder ==
    (up.phase = "file" /\ up.size > chunk_size) =>
        LET log == up.out.log
            n == NumParts(up.size)
        IN  /\ \A i \in CallsOf(log, "complete_multipart_upload") :
                  /\ Len(log[i].parts) = n
                  /\ \A k \in 1..n :
                        /\ log[i].parts[k].PartNumber = k
                        /\ \E j \in AcceptedParts(log) :
                              /\ j < i /\ log[j].part = k
                              /\ log[j].etag = log[i].parts[k].ETag
            /\ (~up.out.raised /\ up.out.result.success) =>
                  /\ \E i \in CallsOf(log, "complete_multipart_upload") : log[i].ok
                  /\ \A k \in 1..n : Cardinality(PartCalls(log, k) \cap AcceptedParts(log)) = 1
                  /\ \A i \in CallsOf(log, "upload_part") : log[i].part \in 1..n
                  /\ \A i, j \in AcceptedParts(log) : i < j => log[i].part < log[j].part
                  /\ SentBytes(log) = up.size

\* a file of two chunks and a byte was sent in three parts, the second of them
\* at its third attempt, and finalized
C32_Witness ==
    /\ up.phase = "file" /\ up.size = 2 * chunk_size + 1
    /\ up.remote.partFails[2] = 2
    /\ ~up.out.raised /\ up.out.result.success
    /\ Cardinality(CallsOf(up.out.log, "upload_part")) = 5
    /\ \E i \in CallsOf(up.out.log, "complete_multipart_upload") :
          Len(up.out.log[i].parts) = 3

\* C36: in one batch no two distinct source files are sent to the same
\* destination key: two files of the batch that were transferred, files of the
\* same name in a folder and in its subfolder included, were sent to different keys.
C36_DistinctKeysInBatch ==
    (up.phase = "batch" /\ ~up.out.raised) =>
        \A i, j \in 1..Len(up.out.summary.results) :
            (/\ up.out.summary.results[i].file_path # up.out.summary.results[j].file_path
             /\ up.out.summary.results[i].success /\ up.out.summary.results[j].success)
                => up.out.summary.results[i].s3_key # up.out.summary.results[j].s3_key

\* C25: the summary upload_files returns for a batch processed for an upload, which
\* is the record _process_files hands to log_upload_summary, carries the id of
\* that upload: its upload_id is one of the upload ids.
C25_SummaryCarriesUploadId ==
    (up.phase = "batch" /\ up.files # <<>> /\ ~up.out.raised)
        => up.out.summary.upload_id \in UploadIds

(***************************************************************************)
(* Properties of the startup resume (SpecResume).                          *)
(***************************************************************************)
\* the upload states the state file holds
Persisted == LoadState(stateFile)

\* C20: the construction of a Coordinator against a state file returns, and for
\* every persisted upload id it registers an engine and a Monitor target with the
\* persisted source folder, bucket and pattern, and hands the files
\* get_incomplete_files gives for that id to the engine; an in-progress file that
\* exists and is transferred successfully is then in completed_files and no
\* longer in in_progress_files.
C20_StartupResume ==
    [][CoordStep("construct") =>
         /\ ~coord'.last.raised
         /\ \A i \in 1..Len(Persisted) :
               LET st == Persisted[i]
                   id == st.upload_id
               IN  /\ id \in coord'.active
                   /\ id \in DOMAIN monitor'
                   /\ monitor'[id].source_folder = st.source_folder
                   /\ monitor'[id].destination_path = st.destination_bucket
                   /\ monitor'[id].pattern = st.pattern
                   /\ coord'.last.sent[id] = get_incomplete_files(Persisted, fs, id)
                   /\ \A p \in DOMAIN st.in_progress_files :
                         (fs[p].exists /\ coord'.firstOk[id][p] = now')
                             => /\ p \in Completed(StateOf(tracker'.states, id))
                                /\ p \notin DOMAIN StateOf(tracker'.states, id).in_progress_files]_vars

\* C37: the construction of a Coordinator against a well-formed state file
\* returns, also when a record of the file names a file that is no longer on
\* disk: the Coordinator is up and every persisted upload has its engine and its
\* Monitor target.
C37_ConstructReturns ==
    [][(CoordStep("construct") /\ stateFile.kind = "json") =>
         /\ coord'.alive
         /\ \A i \in 1..Len(Persisted) :
               Persisted[i].upload_id \in coord'.active \cap DOMAIN monitor']_vars

(***************************************************************************)
(* Further properties of the Tracker (SpecTracker).                        *)
(***************************************************************************)
\* a step in which the Tracker completes the call op
TrackerDoes(op) == nCalls' = nCalls + 1 /\ last'.op = op

\* C26: register_upload(request) sets the state of request.upload_id to a fresh
\* UploadState of the request, with nothing completed, nothing in progress and no
\* modification time, whether the id is new or already has a state, writes the
\* state file, and leaves the states of the other upload ids as they are.
C26_RegisterResetsState ==
    [][TrackerDoes("register") =>
         /\ HasState(tracker'.states, last'.upload_id)
         /\ \E request \in Requests :
               StateOf(tracker'.states, last'.upload_id) = NewState(request)
         /\ stateFile' = SaveState(tracker'.states)
         /\ \A id \in UploadIds \ {last'.upload_id} :
               /\ HasState(tracker'.states, id) = HasState(tracker.states, id)
               /\ HasState(tracker.states, id)
                     => StateOf(tracker'.states, id) = StateOf(tracker.states, id)]_vars

\* an upload that had a state was registered again: its state is fresh, and the
\* upload registered after it still has its completed file
C26_Witness ==
    /\ tracker.alive
    /\ last.op = "register" /\ nCalls = MaxCalls
    /\ Len(tracker.states) = 2
    /\ tracker.states[1].upload_id = last.upload_id
    /\ tracker.states[1].completed_files = <<>>
    /\ tracker.states[2].completed_files # <<>>
    /\ stateFile = SaveState(tracker.states)

\* C30: when a mutating call of the Tracker (register, markComplete,
\* registerChunkedSession) has completed, by returning or by raising, the upload
\* states in the state file are those of the map in memory, whether or not the
\* file the call names is on disk.
C30_PersistedAfterEveryCall ==
    [][(\E op \in {"register", "markComplete", "registerChunkedSession"} : TrackerDoes(op))
          => SameUploadStates(LoadState(stateFile'), tracker'.states)]_vars

\* C34: when a successful result for a completed file, one whose modification
\* time was recorded and which was modified and sent again, has been passed to
\* markComplete, the modification time recorded for the file is the one it has,
\* and getIncompleteFiles does not return the file.
C34_RemarkRecordsMtime ==
    [][(/\ TrackerDoes("markComplete") /\ last'.success /\ ~last'.raised
        /\ HasState(tracker.states, last'.upload_id)
        /\ last'.path \in DOMAIN StateOf(tracker.states, last'.upload_id).last_modified_times
        /\ fs[last'.path].exists)
          => /\ DictGetOr(StateOf(tracker'.states, last'.upload_id).last_modified_times,
                          last'.path, 0) = fs[last'.path].mtime
             /\ last'.path \notin get_incomplete_files(tracker'.states, fs, last'.upload_id)]_vars

(***************************************************************************)
(* Further properties of the Coordinator (SpecCoord).                      *)
(***************************************************************************)
\* a step in which the Coordinator completes the operation op
CoordDoes(op) == coord'.last # coord.last /\ coord'.last.op = op

\* C22: stop_upload(id) removes the Monitor target and the engine of id and leaves
\* the Tracker's map and the state file as they are; a poll hands files of an
\* upload id to the engine only while the id has a Monitor target and an engine,
\* so none does after stop_upload until the id is started again.
C22_StopUploadKeepsState ==
    /\ [][CoordDoes("stopUpload") =>
            /\ coord'.last.upload_id \notin DOMAIN monitor'
            /\ coord'.last.upload_id \notin coord'.active
            /\ tracker' = tracker
            /\ stateFile' = stateFile]_vars
    /\ [][\A id \in UploadIds :
            CoordDoes("poll") /\ coord'.last.sent[id] # {}
                => id \in DOMAIN monitor /\ id \in coord.active]_vars

\* an upload with completed files was stopped, its state is still in the map and
\* in the file, and a file of its listing written since is not transferred
C22_Witness ==
    /\ coord.alive
    /\ coord.last.op = "stopUpload"
    /\ HasState(tracker.states, coord.last.upload_id)
    /\ SameUploadStates(LoadState(stateFile), tracker.states)
    /\ Completed(StateOf(tracker.states, coord.last.upload_id)) # {}
    /\ \E f \in ListingOf(tracker.states, coord.last.upload_id) :
          /\ fs[f].mtime > coord.firstOk[coord.last.upload_id][f]
          /\ f \notin Completed(StateOf(tracker.states, coord.last.upload_id))

\* C23: start_upload raises when the source folder of the request does not exist,
\* and then nothing has begun: the Tracker's map, the state file, the Monitor
\* registry and the engine map are as before and no file is handed to the engine;
\* so no upload state and no Monitor target ever names a folder that is missing.
C23_MissingSourceRaises ==
    /\ [](/\ \A i \in 1..Len(tracker.states) : tracker.states[i].source_folder \in Folders
          /\ \A i \in 1..Len(stateFile.upload_states) :
                stateFile.upload_states[i].source_folder \in Folders
          /\ \A id \in DOMAIN monitor : monitor[id].source_folder \in Folders)
    /\ [][(CoordDoes("startUpload") /\ coord'.last.raised
              /\ coord'.last.sent[coord'.last.upload_id] = {})
            => /\ tracker' = tracker
               /\ stateFile' = stateFile
               /\ monitor' = monitor
               /\ coord'.active = coord.active]_vars

\* start_upload has raised for a missing source folder while another registration
\* of the same upload id, with completed files, is running; it is untouched
C23_Witness ==
    /\ coord.alive
    /\ coord.last.op = "startUpload" /\ coord.last.raised
    /\ coord.last.sent[coord.last.upload_id] = {}
    /\ coord.last.upload_id \in DOMAIN monitor
    /\ coord.last.upload_id \in coord.active
    /\ HasState(tracker.states, coord.last.upload_id)
    /\ Completed(StateOf(tracker.states, coord.last.upload_id)) # {}

\* the completed files of upload id, none when it has no state
CompletedOf(states, id) == IF HasState(states, id) THEN Completed(StateOf(states, id)) ELSE {}

C35_FailedFileRetried ==
    \A id \in UploadIds, p \in Paths :
        (/\ coord.alive /\ coord.last.op \in {"startUpload", "poll"}
         /\ ~coord.last.raised
         /\ p \in coord.last.sent[id] /\ ~coord.last.accept[p]
         /\ fs[p].exists
         /\ id \in coord.active /\ id \in DOMAIN monitor)
            => p \in changed_files(monitor[id], fs)

(***************************************************************************)
(* Further properties of the Monitor (SpecMonitor).                        *)
(***************************************************************************)

\* C27: a poll iteration records the listing and the time also when the callback
\* raises, so that a file delivered to a callback that raised is not delivered
\* again unless it changes: no version of a file of an active target is delivered
\* twice, whether or not the callback of the target has raised.
C27_RaisedCallbackNotRedelivered ==
    \A id \in UploadIds, p \in MonitorPaths :
        Active(id) /\ threads.raised[id] => threads.delivered[id][p] <= 1

\* a step in which register_folder turns down a call for a registered id
Refused == threads'.refused # threads.refused

\* C31: register_folder for an upload id that is registered changes nothing: the
\* targets (source folder, pattern, known files, last check) are as they were, so
\* are the stop events and the threads, and no polling loop is started.
C31_RegisterAgainIsNoOp ==
    [][Refused =>
         /\ monitor' = monitor
         /\ threads'.stop_events = threads.stop_events
         /\ threads'.monitor_threads = threads.monitor_threads
         /\ threads'.loops = threads.loops
         /\ threads'.started = threads.started]_vars

\* register_folder was called for U1 with a pattern other than the one its target
\* has; the target, which has known files, has its own pattern
C31_Witness ==
    /\ threads.refused = "other"
    /\ Active("U1") /\ ~Active("U2")
    /\ monitor["U1"].pattern = "*.txt"
    /\ monitor["U1"].known_files # {}
    /\ threads.started["U1"] = 1

\* a step in which the iteration of thread k ends with an exception: the thread
\* goes from the with block back to waiting without recording the listing
IterationRaised(k) ==
    /\ k \in DOMAIN threads.loops /\ threads.loops[k].pc = "lock"
    /\ k \in DOMAIN threads'.loops /\ threads'.loops[k].pc = "idle"

\* C28: an exception inside a poll iteration (of the listing, of a stat, of the
\* callback) neither ends the loop nor leaves the lock of the Monitor taken: a
\* poll thread holds the lock only while it is between taking it and recording the
\* listing, the iteration that raises releases the lock, keeps the target and the
\* stop flag as they were, and a thread whose target is active does not leave the
\* loop, so that it runs another iteration.
C28_ExceptionKeepsLoop ==
    /\ [](threads.lock \in ThreadKeys =>
            /\ threads.lock \in DOMAIN threads.loops
            /\ threads.loops[threads.lock].pc = "update")
    /\ [][\A k \in ThreadKeys :
            /\ IterationRaised(k) =>
                  /\ threads'.lock = Unlocked
                  /\ monitor' = monitor
                  /\ threads'.loops[k].stop = threads.loops[k].stop
            /\ k \in DOMAIN threads.loops /\ threads.loops[k].pc = "lock"
                  /\ Active(threads.loops[k].upload_id)
                  => k \in DOMAIN threads'.loops]_vars

\* the callback of an active target raised, and the thread of the target has
\* taken the lock again in a later iteration, one that found nothing changed
C28_Witness ==
    /\ threads.callback.raised
    /\ Active(threads.callback.upload_id)
    /\ \E k \in DOMAIN threads.loops :
          /\ threads.loops[k].upload_id = threads.callback.upload_id
          /\ threads.loops[k].pc = "update"
          /\ threads.lock = k

\* the polling loops that can run a poll iteration for upload id: those that
\* are waiting for the lock or hold it, and those that wait for the next
\* interval with their stop event not set
AbleToPoll(id) ==
    {k \in DOMAIN threads.loops :
        /\ threads.loops[k].upload_id = id
        /\ threads.loops[k].pc \in {"lock", "update"} \/ ~threads.loops[k].stop}

\* C39: at most one polling loop can run a poll iteration, and call the callback,
\* for an upload id that is registered, whatever the order of the register_folder
\* and unregister_folder calls for the id, an unregister_folder whose join timed
\* out followed by a register_folder included.
C39_OneLoopPerUpload ==
    \A id \in UploadIds : Active(id) => Cardinality(AbleToPoll(id)) <= 1

(***************************************************************************)
(* Properties of the locks (SpecLocks).                                    *)
(***************************************************************************)
\* the thread is inside S3Uploader.upload_files
InBatch(c) == locks.pc[c] = "upload_files"

\* C21: the Coordinator's lock is held around the access to the engine map only,
\* never while a transfer batch runs: no thread that is inside upload_files holds
\* it (so that the batches of two upload ids can run at the same time).
C21_NoLockAroundBatch ==
    \A c \in Callers : InBatch(c) => "coordinator" \notin locks.held[c]

\* C29: no thread ever holds more than one of the three locks (the Tracker's,
\* the Monitor's, the Coordinator's): the Monitor's lock is not held while the
\* callback takes another lock, nor the Coordinator's while a Tracker method runs.
C29_AtMostOneLock ==
    \A c \in Callers : Cardinality(locks.held[c]) <= 1

(***************************************************************************)
(* Properties of the worker pool (SpecPool).                               *)
(***************************************************************************)
\* C33: within one upload_files call at most max_workers _upload_file tasks run
\* at the same time, and the call is over, by a return or by an exception, only
\* when every task of the batch has finished.
C33_BoundedPool ==
    /\ up.phase \in {"pool", "returned"} => Cardinality(RunningTasks(up.tasks)) <= max_workers
    /\ up.phase = "returned" =>
          \A i \in 1..Len(up.tasks) : up.tasks[i] \in {"done", "collected"}

\* a batch of more files than workers: all the workers are busy and a task waits
C33_Witness ==
    /\ up.phase = "pool"
    /\ Len(up.tasks) > max_workers
    /\ Cardinality(RunningTasks(up.tasks)) = max_workers
    /\ \E i \in 1..Len(up.tasks) : up.tasks[i] = "queued"

(***************************************************************************)
(* Properties of uploads started again (SpecRestart).                      *)
(***************************************************************************)
\* C38: for every upload id that has a Tracker state and an active Monitor
\* target, the target has the source folder and the pattern of the state, also
\* after start_upload was called for an id that is active with another pattern.
C38_TargetMatchesState ==
    \A id \in UploadIds :
        (coord.alive /\ HasState(tracker.states, id) /\ id \in DOMAIN monitor)
            => /\ monitor[id].source_folder = StateOf(tracker.states, id).source_folder
               /\ monitor[id].pattern = StateOf(tracker.states, id).pattern

(***************************************************************************)
(* Properties of start_upload step by step (SpecStart).                    *)
(***************************************************************************)
\* C40: a running Coordinator hands no version of a file to the engine twice when
\* the transfer succeeds, however the initial scan of start_upload and the polls
\* of the target it registered interleave: a file a poll has just transferred
\* was not transferred before for the upload, or was written since it first was.
C40_VersionSentOnce ==
    \A id \in UploadIds, p \in Paths :
        (/\ coord.last.op = "poll" /\ ~coord.last.raised
         /\ p \in coord.last.sent[id] /\ coord.last.accept[p]
         /\ coord.firstOk[id][p] # 0)
            => \/ coord.firstOk[id][p] = now
               \/ fs[p].mtime > coord.firstOk[id][p]

====
